---- MODULE Spec2Model ----
(***************************************************************************)
(* Model of the email -> CRM note pipeline of CRM-SYNC:                    *)
(*   EnhancedEmailProcessor (services/enhanced_processor.py) driving       *)
(*   GmailClient, the AI extractor and ZohoV8EnhancedClient.               *)
(* Text is modelled as a sequence of one-character strings, so that the    *)
(* tokenisers (lower / replace / split / title) are computed as the code   *)
(* computes them.  Remote collaborators answer nondeterministically.       *)
(***************************************************************************)
EXTENDS Integers, Sequences, FiniteSets, TLC

(***************************************************************************)
(* Bounds of the model                                                     *)
(***************************************************************************)
MaxPasses == 2
\* the clock of the metadata cache runs up to MaxHours
MaxHours == 24
\* subjects of 0 .. MaxSubjectLen characters get a note title
MaxSubjectLen == 112
\* longest search value handed to a query builder
MaxValueLen == 3

(***************************************************************************)
(* Text helpers (python str methods used by the processor)                 *)
(***************************************************************************)
\* a text field that is absent (python None); no text equals it
None == <<"None">>

LowerChars == <<"a","b","c","d","e","f","g","h","i","j","k","l","m",
                "n","o","p","q","r","s","t","u","v","w","x","y","z">>
UpperChars == <<"A","B","C","D","E","F","G","H","I","J","K","L","M",
                "N","O","P","Q","R","S","T","U","V","W","X","Y","Z">>
DigitChars == {"0","1","2","3","4","5","6","7","8","9"}
SpaceChars == {" "}

IsLowerChar(c) == \E i \in 1..26 : LowerChars[i] = c
IsUpperChar(c) == \E i \in 1..26 : UpperChars[i] = c
IsAlphaChar(c) == IsLowerChar(c) \/ IsUpperChar(c)

LowerChar(c) ==
    IF IsUpperChar(c) THEN LowerChars[CHOOSE i \in 1..26 : UpperChars[i] = c] ELSE c
UpperChar(c) ==
    IF IsLowerChar(c) THEN UpperChars[CHOOSE i \in 1..26 : LowerChars[i] = c] ELSE c

\* str.lower()
StrLower(s) == [i \in 1..Len(s) |-> LowerChar(s[i])]

\* str.title(): a cased character is upper-cased when it follows an uncased
\* character (or starts the string) and lower-cased otherwise
StrTitle(s) ==
    [i \in 1..Len(s) |->
        IF i = 1 \/ ~IsAlphaChar(s[i-1]) THEN UpperChar(s[i]) ELSE LowerChar(s[i])]

\* str.isdigit(): non-empty and every character a digit
StrIsDigit(s) == Len(s) > 0 /\ \A i \in 1..Len(s) : s[i] \in DigitChars

\* s[i..] starts with pat
StartsWithAt(s, i, pat) ==
    /\ i + Len(pat) - 1 <= Len(s)
    /\ \A k \in 1..Len(pat) : s[i + k - 1] = pat[k]

\* str.replace(pat, rep): leftmost non-overlapping occurrences, pat non-empty
RECURSIVE ReplaceFrom(_, _, _, _)
ReplaceFrom(s, i, pat, rep) ==
    IF i > Len(s) THEN <<>>
    ELSE IF StartsWithAt(s, i, pat)
         THEN rep \o ReplaceFrom(s, i + Len(pat), pat, rep)
         ELSE <<s[i]>> \o ReplaceFrom(s, i + 1, pat, rep)
StrReplace(s, pat, rep) == ReplaceFrom(s, 1, pat, rep)

\* str.split(): split on runs of whitespace, no empty items
RECURSIVE SplitWsFrom(_, _, _)
SplitWsFrom(s, i, cur) ==
    IF i > Len(s) THEN (IF cur = <<>> THEN <<>> ELSE <<cur>>)
    ELSE IF s[i] \in SpaceChars
         THEN (IF cur = <<>> THEN <<>> ELSE <<cur>>) \o SplitWsFrom(s, i + 1, <<>>)
         ELSE SplitWsFrom(s, i + 1, Append(cur, s[i]))
StrSplit(s) == SplitWsFrom(s, 1, <<>>)

\* str.split(sep) for a one-character separator: empty items are kept
RECURSIVE SplitSepFrom(_, _, _, _)
SplitSepFrom(s, i, sep, cur) ==
    IF i > Len(s) THEN <<cur>>
    ELSE IF s[i] = sep
         THEN <<cur>> \o SplitSepFrom(s, i + 1, sep, <<>>)
         ELSE SplitSepFrom(s, i + 1, sep, Append(cur, s[i]))
StrSplitOn(s, sep) == SplitSepFrom(s, 1, sep, <<>>)

\* sep in s
StrContains(s, c) == \E i \in 1..Len(s) : s[i] = c

\* python slice seq[:n]
Take(seq, n) == SubSeq(seq, 1, IF Len(seq) < n THEN Len(seq) ELSE n)

\* [word.title() for word in words]
TitleAll(words) == [i \in 1..Len(words) |-> StrTitle(words[i])]

\* dict.get(key, default)
DictGet(d, k, default) == IF k \in DOMAIN d THEN d[k] ELSE default

(***************************************************************************)
(* Keyword extraction (SignalExtractor)                                    *)
(***************************************************************************)
common_words ==
    {
      <<"r","o","a","d">>, <<"s","t","r","e","e","t">>, <<"a","v","e","n","u","e">>,
      <<"l","a","n","e">>, <<"d","r","i","v","e">>, <<"c","l","o","s","e">>,
      <<"g","a","r","d","e","n","s">>, <<"e","s","t","a","t","e">>, <<"o","f">>,
      <<"t","h","e">>, <<"a","n","d">>, <<"h","o","u","s","e">>,
      <<"f","l","a","t">>, <<"a","p","a","r","t","m","e","n","t">>
    }

common_business_words ==
    {
      <<"l","t","d">>, <<"l","i","m","i","t","e","d">>, <<"p","l","c">>,
      <<"l","l","c">>, <<"i","n","c">>, <<"c","o","r","p">>,
      <<"c","o","r","p","o","r","a","t","i","o","n">>, <<"c","o","m","p","a","n","y">>, <<"c","o">>,
      <<"g","r","o","u","p">>, <<"h","o","l","d","i","n","g","s">>, <<"d","e","v","e","l","o","p","m","e","n","t">>,
      <<"d","e","v","e","l","o","p","m","e","n","t","s">>
    }

common_email_words ==
    {
      <<"r","e">>, <<"f","w","d">>, <<"f","w">>,
      <<"r","e","p","l","y">>, <<"r","e","g","a","r","d","i","n","g">>, <<"a","b","o","u","t">>,
      <<"e","m","a","i","l">>, <<"m","e","s","s","a","g","e">>, <<"u","r","g","e","n","t">>,
      <<"i","m","p","o","r","t","a","n","t">>, <<"p","l","e","a","s","e">>, <<"t","h","a","n","k","s">>,
      <<"t","h","a","n","k">>, <<"y","o","u">>, <<"u","p","d","a","t","e">>
    }

\* address.lower().replace(',', ' ').replace('-', ' ').split(), then the filter
_extract_address_keywords(address) ==
    LET words == StrSplit(StrReplace(StrReplace(StrLower(address), <<",">>, <<" ">>),
                                     <<"-">>, <<" ">>))
        Keep(word) == Len(word) > 2 /\ word \notin common_words /\ ~StrIsDigit(word)
    IN  TitleAll(SelectSeq(words, Keep))

_extract_company_keywords(company_name) ==
    LET words == StrSplit(StrReplace(StrReplace(StrLower(company_name), <<",">>, <<" ">>),
                                     <<"-">>, <<" ">>))
        Keep(word) == Len(word) > 2 /\ word \notin common_business_words
    IN  TitleAll(SelectSeq(words, Keep))

_extract_subject_keywords(subject) ==
    LET words == StrSplit(StrReplace(StrReplace(StrReplace(StrLower(subject),
                              <<"r","e",":">>, <<>>), <<"f","w","d",":">>, <<>>),
                              <<",">>, <<" ">>))
        Keep(word) == Len(word) > 3 /\ word \notin common_email_words /\ ~StrIsDigit(word)
    IN  TitleAll(SelectSeq(words, Keep))

(***************************************************************************)
(* The mailbox: the messages the mail collaborator can hand out, already   *)
(* decoded (extract_enhanced_email_content), and what the AI collaborator  *)
(* extracts from each                                                      *)
(***************************************************************************)
MsgIds == {"m1", "m2"}

\* the order in which the mail collaborator lists messages
ListingOrder == <<"m1", "m2">>

\* m1 carries every signal; m2 carries none (no sender address, a subject
\* made of stop words, nothing for the AI to extract)
Mailbox ==
    [m \in MsgIds |->
        IF m = "m1"
        THEN [gmail_message_id |-> "m1",
              subject |-> <<"S","i","t","e"," ","p","l","a","n","s">>,
              from    |-> << <<"j","a","n","e","@","o","a","k",".","c","o">> >>,
              ai      |-> [property_address |-> <<"1","2"," ","E","l","m"," ","R","o","a","d",","," ","K","e","n","t">>,
                           client_name      |-> <<"A","c","m","e"," ","L","t","d">>,
                           development_name |-> <<"E","l","m","-","P","a","r","k"," ","H","o","m","e","s">>]]
        ELSE [gmail_message_id |-> "m2",
              subject |-> <<"R","e",":"," ","u","r","g","e","n","t">>,
              from    |-> <<>>,
              ai      |-> [property_address |-> None, client_name |-> None,
                           development_name |-> None]]]

(***************************************************************************)
(* Results of calls: a returned value or a raised exception                *)
(***************************************************************************)
Ret(v) == [ret |-> v]
Raise(e) == [raise |-> e]
IsRaise(r) == "raise" \in DOMAIN r

\* a local variable that holds nothing yet
NoValue == [unset |-> TRUE]

(***************************************************************************)
(* The remote record store as seen on the wire: an HTTP response, a        *)
(* transport error (requests.RequestException) or any other exception      *)
(***************************************************************************)
Resp(status, data) == [kind |-> "response", status |-> status, data |-> data]
NetErr == [kind |-> "RequestException", status |-> 0, data |-> <<>>]
OtherExc == [kind |-> "Exception", status |-> 0, data |-> <<>>]

R1 == [id |-> "R1", Account_Name |-> "Oak Estates"]
R2 == [id |-> "R2", Account_Name |-> "Elm Park"]

\* answers of GET /{module}/search?word=
SearchAnswers ==
    { Resp(200, <<>>), Resp(200, <<R1>>), Resp(200, <<R2, R1>>),
      Resp(204, <<>>), Resp(500, <<>>), NetErr, OtherExc }

\* answers of GET /{module} (the unfiltered listing)
ListAnswers ==
    { Resp(200, <<R1, R2>>), Resp(200, <<R2, R1>>), Resp(200, <<>>),
      Resp(500, <<>>), NetErr, OtherExc }

\* answers of POST /{module}/{id}/Notes; the store numbers its notes
NoteAnswers(note_id) ==
    { Resp(201, << [code |-> "SUCCESS", details |-> [id |-> note_id]] >>),
      Resp(200, << [code |-> "INVALID_DATA", details |-> [id |-> 0]] >>),
      Resp(200, <<>>), Resp(400, <<>>), NetErr, OtherExc }

\* the note really was stored
NoteStored(answer) ==
    /\ answer.kind = "response" /\ answer.status \in {200, 201}
    /\ answer.data # <<>> /\ answer.data[1].code = "SUCCESS"

\* answers of POST /coql for the duplicate check: the store answers with the
\* notes whose title or content contains the message id, or fails
CoqlAnswers(stored, gmail_message_id) ==
    { Resp(200, SelectSeq(stored, LAMBDA n : n.gmail_message_id = gmail_message_id)),
      Resp(400, <<>>), NetErr, OtherExc }

(***************************************************************************)
(* ZohoV8EnhancedClient                                                    *)
(***************************************************************************)
search_by_word(word, answer) ==
    IF answer.kind = "response"
    THEN IF answer.status = 200
         THEN (IF answer.data # <<>> THEN Ret(answer.data) ELSE Ret(<<>>))
         ELSE Ret(<<>>)
    ELSE IF answer.kind = "RequestException" THEN Ret(<<>>)
    ELSE Raise("Exception")

coql_query(query, answer) ==
    IF answer.kind = "response"
    THEN IF answer.status = 200
         THEN Ret([data |-> answer.data, info |-> <<>>, success |-> TRUE])
         ELSE Ret([data |-> <<>>, success |-> FALSE, error |-> "error_message",
                   error_code |-> "UNKNOWN_ERROR", status_code |-> answer.status])
    ELSE IF answer.kind = "RequestException"
    THEN Ret([data |-> <<>>, success |-> FALSE, error |-> "RequestException"])
    ELSE Raise("Exception")

\* disable_coql_features is never set on the client, so the query is issued;
\* the whole body is inside try / except Exception
check_email_already_processed(gmail_message_id, answer) ==
    LET coql_result == coql_query(gmail_message_id, answer)
    IN  IF IsRaise(coql_result) THEN Ret(FALSE)
        ELSE IF /\ DictGet(coql_result.ret, "success", FALSE)
                /\ DictGet(coql_result.ret, "records", <<>>) # <<>>
             THEN Ret(TRUE)
             ELSE Ret(FALSE)

create_note(parent_id, answer) ==
    IF answer.kind = "response"
    THEN IF answer.status \in {200, 201}
         THEN IF answer.data # <<>>
              THEN IF answer.data[1].code = "SUCCESS"
                   THEN Ret([success |-> TRUE, note_id |-> answer.data[1].details.id,
                             details |-> answer.data[1]])
                   ELSE Ret([success |-> FALSE, error |-> "Unknown error",
                             details |-> answer.data[1]])
              ELSE Ret([success |-> FALSE, error |-> "No response data received"])
         ELSE Ret([success |-> FALSE, error |-> "HTTP error"])
    ELSE IF answer.kind = "RequestException"
    THEN Ret([success |-> FALSE, error |-> "RequestException"])
    ELSE Raise("Exception")

create_note_with_email_tracking(development_id, answer) ==
    LET result == create_note(development_id, answer)
    IN  IF IsRaise(result) THEN Ret([success |-> FALSE, error |-> "Exception"])
        ELSE result

(***************************************************************************)
(* GmailClient                                                             *)
(***************************************************************************)
\* messages.list(labelIds=['STARRED'], q='-label:Processed'): every message
\* of the mailbox is starred; the ones carrying the label are left out
get_starred_emails(answer, with_label) ==
    IF answer = "ok"
    THEN Ret(SelectSeq(ListingOrder, LAMBDA m : m \notin with_label))
    ELSE Raise("HttpError")

\* messages.get
get_message_detail(msg_id, answer) ==
    IF answer = "ok" THEN Ret(Mailbox[msg_id]) ELSE Raise("HttpError")

\* messages.modify(addLabelIds) inside try / except Exception: the set of
\* labelled messages after the call
add_processed_label(msg_id, answer, with_label) ==
    IF answer = "ok" THEN with_label \cup {msg_id} ELSE with_label

(***************************************************************************)
(* AI extraction collaborator                                              *)
(***************************************************************************)
NoFields == [property_address |-> None, client_name |-> None, development_name |-> None]

\* process_email_comprehensive answers with the extracted fields, with its
\* fallback result (no field), or raises an error it does not catch
extract_development_info_and_summary(email, answer) ==
    IF answer = "ok" THEN Ret(email.ai)
    ELSE IF answer = "fallback" THEN Ret(NoFields)
    ELSE Raise("TypeError")

(***************************************************************************)
(* EnhancedEmailProcessor: matching                                        *)
(***************************************************************************)
\* python truth value of an optional text
Truthy(text) == text # None /\ text # <<>>

\* whether _word_search_safe issues the remote search for the term
WordSearchIssued(term) == ~(term = <<>> \/ Len(term) < 2)

\* _word_search_safe: never raises, at most max_results = 5 records
_word_search_safe(term, answer) ==
    IF ~WordSearchIssued(term) THEN Ret(<<>>)
    ELSE LET results == search_by_word(term, answer)
         IN  IF IsRaise(results) THEN Ret(<<>>)
             ELSE Ret(Take(results.ret, 5))

\* what a search function returns when the probe of `term` hits
Hit(results, label, term, confidence) ==
    [found |-> TRUE,
     development_id |-> results[1].id,
     development_name |-> DictGet(results[1], "Account_Name", "Unknown"),
     method |-> [label |-> label, term |-> term],
     confidence |-> confidence]

\* Strategy 1: per sender address, the domain and then the username
SenderProbes(sender_email) ==
    IF sender_email # <<>> /\ StrContains(sender_email, "@")
    THEN LET domain == StrSplitOn(sender_email, "@")[2]
             username == StrSplitOn(sender_email, "@")[1]
         IN  << [term |-> domain, label |-> "Email domain", confidence |-> "high"] >>
             \o (IF Len(username) > 3
                 THEN << [term |-> username, label |-> "Email username",
                          confidence |-> "medium"] >>
                 ELSE <<>>)
    ELSE <<>>

RECURSIVE AllSenderProbes(_)
AllSenderProbes(sender_emails) ==
    IF sender_emails = <<>> THEN <<>>
    ELSE SenderProbes(Head(sender_emails)) \o AllSenderProbes(Tail(sender_emails))

\* variant: every address part is reported with confidence high
_search_by_address_parts_allhigh(address) ==
    IF ~Truthy(address) THEN <<>>
    ELSE LET address_parts == Take(_extract_address_keywords(address), 3)
         IN  [i \in 1..Len(address_parts) |->
                 [term |-> address_parts[i], label |-> "Address part",
                  confidence |-> "high"]]

\* the probes of the loop of _search_by_address_parts, in order
_search_by_address_parts(address) ==
    IF ~Truthy(address) THEN <<>>
    ELSE LET address_parts == Take(_extract_address_keywords(address), 3)
         IN  [i \in 1..Len(address_parts) |->
                 [term |-> address_parts[i], label |-> "Address part",
                  confidence |-> IF i = 1 THEN "high" ELSE "medium"]]

_search_by_company_parts(company_name) ==
    IF ~Truthy(company_name) THEN <<>>
    ELSE LET company_parts == Take(_extract_company_keywords(company_name), 2)
         IN  [i \in 1..Len(company_parts) |->
                 [term |-> company_parts[i], label |-> "Company part",
                  confidence |-> IF i = 1 THEN "high" ELSE "medium"]]

\* variant: every keyword of the subject is tried
_search_subject_keywords_unlimited(subject) ==
    IF ~Truthy(subject) THEN <<>>
    ELSE LET keywords == _extract_subject_keywords(subject)
         IN  [i \in 1..Len(keywords) |->
                 [term |-> keywords[i], label |-> "Subject keyword",
                  confidence |-> "low"]]

\* the probes of the loop of _search_subject_keywords, in order
_search_subject_keywords(subject) ==
    IF ~Truthy(subject) THEN <<>>
    ELSE LET keywords == Take(_extract_subject_keywords(subject), 3)
         IN  [i \in 1..Len(keywords) |->
                 [term |-> keywords[i], label |-> "Subject keyword",
                  confidence |-> "low"]]

\* variant: the subject strategy runs before the address strategy
ProbePlan_subjectEarly(content, info) ==
    AllSenderProbes(content.from)
    \o _search_subject_keywords(content.subject)
    \o _search_by_address_parts(info.property_address)
    \o _search_by_company_parts(info.client_name)
    \o _search_by_company_parts(info.development_name)

\* _find_matching_development_smart: the probes it issues, in order, until
\* one of them returns a record
ProbePlan(content, info) ==
    AllSenderProbes(content.from)
    \o _search_by_address_parts(info.property_address)
    \o _search_by_company_parts(info.client_name)
    \o _search_by_company_parts(info.development_name)
    \o _search_subject_keywords(content.subject)

NoMatch == [found |-> FALSE, method |-> "no_match", confidence |-> "none"]

(***************************************************************************)
(* EnhancedEmailProcessor: note creation                                   *)
(***************************************************************************)
\* variant: only the raw API shape (data[0].status) counts as a success
_is_success_response_dataonly(response) ==
    IF "data" \in DOMAIN response /\ response.data # <<>>
    THEN DictGet(response.data[1], "status", "") = "success"
    ELSE FALSE

_is_success_response(response) ==
    IF "data" \in DOMAIN response /\ response.data # <<>>
    THEN DictGet(response.data[1], "status", "") = "success"
    ELSE IF "success" \in DOMAIN response THEN response.success
    ELSE FALSE

_extract_note_id(response) ==
    IF "data" \in DOMAIN response /\ response.data # <<>>
    THEN response.data[1].details.id
    ELSE 0

\* try / except Exception around the client call
_create_note_safe(development_id, answer) ==
    LET result == create_note_with_email_tracking(development_id, answer)
    IN  IF IsRaise(result)
        THEN Ret([success |-> FALSE, error |-> "Exception"])
        ELSE IF _is_success_response(result.ret)
             THEN Ret([success |-> TRUE, note_id |-> _extract_note_id(result.ret)])
             ELSE Ret([success |-> FALSE, error |-> "API returned failure"])

\* the client has no get_all_records, so the listing is the direct GET
_populate_accounts_cache(answer) ==
    IF answer.kind = "response"
    THEN IF answer.status = 200 THEN answer.data ELSE <<>>
    ELSE <<>>

(***************************************************************************)
(* Note titles: the title built by the processor, wrapped by               *)
(* create_note_with_email_tracking and bounded by create_note              *)
(***************************************************************************)
Ellipsis == <<".", ".", ".">>
EmailPrefix == <<"E","m","a","i","l",":"," ">>
UnmatchedPrefix ==
    <<"E","m","a","i","l"," ","(","U","n","m","a","t","c","h","e","d",")",":"," ">>

max_title_length == 110

\* _create_note_with_strategy: f"Email: {subject}", shortened above 110
MatchedTitle(subject) ==
    IF Len(EmailPrefix \o subject) > max_title_length
    THEN EmailPrefix \o Take(subject, max_title_length - 8) \o Ellipsis
    ELSE EmailPrefix \o subject

\* _create_fallback_note: f"Email (Unmatched): {subject}", shortened above 110
FallbackTitle(subject) ==
    IF Len(UnmatchedPrefix \o subject) > max_title_length
    THEN UnmatchedPrefix \o Take(subject, max_title_length - 18) \o Ellipsis
    ELSE UnmatchedPrefix \o subject

\* create_note_with_email_tracking: f"Email: {email_subject} (ID: {gmail_message_id})"
TrackedTitle(email_subject, gmail_message_id) ==
    EmailPrefix \o email_subject \o <<" ","(","I","D",":"," ">> \o gmail_message_id
        \o <<")">>

\* variant: create_note sends the title as it got it
Note_Title_unbounded(title) == title

\* create_note: the Note_Title of the payload (the title is never empty here)
Note_Title(title) ==
    IF Len(title) > max_title_length
    THEN Take(title, max_title_length - 3) \o Ellipsis
    ELSE title

\* _create_note_safe hands the title over as email_subject and as
\* gmail_message_id; the Note_Title that reaches the remote
NoteTitleSent(title) == Note_Title(TrackedTitle(title, title))

\* the lines of the note content that depend on the match: "Matching Method"
\* on the matched path, "FALLBACK NOTE ... Attempted Method" on the fallback path
MatchedContent(match) == [marker |-> "matched", method |-> match.method]
FallbackContent(match) ==
    [marker |-> "FALLBACK NOTE", method |-> DictGet(match, "method", "no_match")]

\* a subject of n characters
SubjectOfLength(n) == [i \in 1..n |-> LowerChars[(i % 26) + 1]]

(***************************************************************************)
(* ZohoV8EnhancedClient: the metadata cache and the descriptor getters     *)
(* (discover_modules, get_module_metadata, get_field_metadata), and the    *)
(* getters of zoho/modules.py (Modules), which use the client's cache.     *)
(* A cache state cs is [module, field, timestamps], three dicts keyed by   *)
(* the cache key; time is in seconds.                                      *)
(***************************************************************************)
\* self.developments_module
developments_module == <<"A","c","c","o","u","n","t","s">>

\* f"modules_{status or 'all'}" with status None
ModulesKey == <<"m","o","d","u","l","e","s","_","a","l","l">>
\* f"modules_metadata_{search_module}"
ModulesMetadataKey(module) ==
    <<"m","o","d","u","l","e","s","_","m","e","t","a","d","a","t","a","_">> \o module
\* f"fields_metadata_{search_module}"
FieldsMetadataKey(module) ==
    <<"f","i","e","l","d","s","_","m","e","t","a","d","a","t","a","_">> \o module
\* f"metadata_{module_name}"
MetadataKey(module) == <<"m","e","t","a","d","a","t","a","_">> \o module
\* f"fields_{module_name}"
FieldsKey(module) == <<"f","i","e","l","d","s","_">> \o module

\* the python dict {}
EmptyDict == [x \in {} |-> x]

\* d[k] = v on a python dict
DictPut(d, k, v) == [x \in DOMAIN d \cup {k} |-> IF x = k THEN v ELSE d[x]]

\* truth value of d.get(k) for a dict of lists / dicts: None, [] and {} are false
CachedTruthy(d, k) == k \in DOMAIN d /\ DOMAIN d[k] # {}

_is_cache_valid(timestamps, cache_key, ttl_hours, time) ==
    IF cache_key \notin DOMAIN timestamps
    THEN FALSE
    ELSE (time - timestamps[cache_key]) < ttl_hours * 3600

\* variant: one dict for the payloads of both kinds
_update_cache_shared(cs, cache_key, data, time) ==
    [cs EXCEPT !.timestamps = DictPut(cs.timestamps, cache_key, time),
               !.module = DictPut(cs.module, cache_key, data),
               !.field = DictPut(cs.field, cache_key, data)]

_update_cache(cs, cache_key, data, time) ==
    LET stamped == [cs EXCEPT !.timestamps = DictPut(cs.timestamps, cache_key, time)]
    IN  IF StartsWithAt(cache_key, 1, <<"m","o","d","u","l","e","s">>)
        THEN [stamped EXCEPT !.module = DictPut(cs.module, cache_key, data)]
        ELSE IF StartsWithAt(cache_key, 1, <<"f","i","e","l","d","s">>)
        THEN [stamped EXCEPT !.field = DictPut(cs.field, cache_key, data)]
        ELSE stamped

\* the ttl_hours each getter passes to _is_cache_valid
TtlHours ==
    [discover_modules |-> 24, get_module_metadata |-> 24, get_field_metadata |-> 12,
     Modules_discover |-> 24, Modules_get_metadata |-> 12, Modules_get_fields |-> 12]

\* what a getter leaves behind: its result, the cache, the requests it issued
Served(result, cs, calls) == [result |-> result, cs |-> cs, calls |-> calls]

discover_modules(cs, time, answer) ==
    LET cache_key == ModulesKey
        calls == << "settings/modules" >>
    IN  IF _is_cache_valid(cs.timestamps, cache_key, TtlHours.discover_modules, time)
        THEN Served(Ret(DictGet(cs.module, cache_key, <<>>)), cs, <<>>)
        ELSE IF answer.kind = "response"
        THEN IF answer.status = 200
             THEN LET modules == DictGet(answer.data, "modules", <<>>)
                  IN  Served(Ret(modules),
                             _update_cache(cs, cache_key, modules, time), calls)
             ELSE Served(Ret(<<>>), cs, calls)
        ELSE IF answer.kind = "RequestException"
        THEN Served(Ret(<<>>), cs, calls)
        ELSE Served(Raise("Exception"), cs, calls)

get_module_metadata(cs, time, module, answer) ==
    LET cache_key == ModulesMetadataKey(module)
        calls == << "settings/modules/{module}" >>
    IN  IF _is_cache_valid(cs.timestamps, cache_key, TtlHours.get_module_metadata, time)
        THEN Served(Ret(DictGet(cs.module, cache_key, EmptyDict)), cs, <<>>)
        ELSE IF answer.kind = "response"
        THEN IF answer.status = 200
             THEN LET modules == DictGet(answer.data, "modules", <<>>)
                  IN  IF modules # <<>>
                      THEN Served(Ret([success |-> TRUE, metadata |-> modules[1]]),
                                  _update_cache(cs, cache_key, modules[1], time), calls)
                      ELSE Served(Ret([success |-> FALSE,
                                       error |-> "Module metadata not found"]), cs, calls)
             ELSE Served(Ret([success |-> FALSE, error |-> "HTTP error"]), cs, calls)
        ELSE IF answer.kind = "RequestException"
        THEN Served(Ret([success |-> FALSE, error |-> "RequestException"]), cs, calls)
        ELSE Served(Raise("Exception"), cs, calls)

\* variant: a failed fetch hands out what the cache still holds
get_field_metadata_servesStale(cs, time, module, answer) ==
    LET cache_key == FieldsMetadataKey(module)
        calls == << "settings/fields" >>
    IN  IF _is_cache_valid(cs.timestamps, cache_key, TtlHours.get_field_metadata, time)
        THEN Served(Ret(DictGet(cs.field, cache_key, <<>>)), cs, <<>>)
        ELSE IF answer.kind = "response" /\ answer.status = 200
        THEN LET fields == DictGet(answer.data, "fields", <<>>)
             IN  Served(Ret(fields), _update_cache(cs, cache_key, fields, time), calls)
        ELSE Served(Ret(DictGet(cs.field, cache_key, <<>>)), cs, calls)

get_field_metadata(cs, time, module, answer) ==
    LET cache_key == FieldsMetadataKey(module)
        calls == << "settings/fields" >>
    IN  IF _is_cache_valid(cs.timestamps, cache_key, TtlHours.get_field_metadata, time)
        THEN Served(Ret(DictGet(cs.field, cache_key, <<>>)), cs, <<>>)
        ELSE IF answer.kind = "response"
        THEN IF answer.status = 200
             THEN LET fields == DictGet(answer.data, "fields", <<>>)
                  IN  Served(Ret(fields),
                             _update_cache(cs, cache_key, fields, time), calls)
             ELSE Served(Ret(<<>>), cs, calls)
        ELSE IF answer.kind = "RequestException"
        THEN Served(Ret(<<>>), cs, calls)
        ELSE Served(Raise("Exception"), cs, calls)

(***************************************************************************)
(* zoho/modules.py: Modules, on the cache of its client                    *)
(***************************************************************************)
Modules_discover(cs, time, answer) ==
    LET cache_key == ModulesKey
        calls == << "settings/modules" >>
    IN  IF /\ _is_cache_valid(cs.timestamps, cache_key, TtlHours.Modules_discover, time)
           /\ CachedTruthy(cs.module, cache_key)
        THEN Served(Ret(cs.module[cache_key]), cs, <<>>)
        ELSE IF answer.kind = "response"
        THEN IF answer.status = 200
             THEN LET modules == DictGet(answer.data, "modules", <<>>)
                  IN  Served(Ret(modules),
                             _update_cache(cs, cache_key, modules, time), calls)
             ELSE Served(Raise("ZohoApiError"), cs, calls)
        ELSE IF answer.kind = "RequestException"
        THEN Served(Raise("ZohoApiError"), cs, calls)
        ELSE Served(Raise("Exception"), cs, calls)

Modules_get_metadata(cs, time, module, answer) ==
    LET cache_key == MetadataKey(module)
        calls == << "settings/modules/{module}" >>
    IN  IF /\ _is_cache_valid(cs.timestamps, cache_key, TtlHours.Modules_get_metadata, time)
           /\ CachedTruthy(cs.module, cache_key)
        THEN Served(Ret(cs.module[cache_key]), cs, <<>>)
        ELSE IF answer.kind = "response"
        THEN IF answer.status = 200
             THEN IF /\ "modules" \in DOMAIN answer.data
                     /\ Len(answer.data.modules) > 0
                  THEN Served(Ret(answer.data.modules[1]),
                              _update_cache(cs, cache_key, answer.data.modules[1], time),
                              calls)
                  ELSE Served(Raise("ZohoApiError"), cs, calls)
             ELSE Served(Raise("ZohoApiError"), cs, calls)
        ELSE IF answer.kind = "RequestException"
        THEN Served(Raise("ZohoApiError"), cs, calls)
        ELSE Served(Raise("Exception"), cs, calls)

Modules_get_fields(cs, time, module, answer) ==
    LET cache_key == FieldsKey(module)
        calls == << "settings/fields" >>
    IN  IF /\ _is_cache_valid(cs.timestamps, cache_key, TtlHours.Modules_get_fields, time)
           /\ CachedTruthy(cs.field, cache_key)
        THEN Served(Ret(cs.field[cache_key]), cs, <<>>)
        ELSE IF answer.kind = "response"
        THEN IF answer.status = 200
             THEN LET fields == DictGet(answer.data, "fields", <<>>)
                      written == [cs EXCEPT !.field = DictPut(cs.field, cache_key, fields)]
                  IN  Served(Ret(fields),
                             _update_cache(written, cache_key, fields, time), calls)
             ELSE Served(Raise("ZohoApiError"), cs, calls)
        ELSE IF answer.kind = "RequestException"
        THEN Served(Raise("ZohoApiError"), cs, calls)
        ELSE Served(Raise("Exception"), cs, calls)

\* the settings endpoints as seen on the wire at a given time: the descriptor
\* served carries the time it was served at
ModuleDescriptor(time) == [api_name |-> developments_module, served_at |-> time]
FieldDescriptor(time) == [api_name |-> "Name", served_at |-> time]

ModulesAnswers(time) ==
    { Resp(200, [modules |-> << ModuleDescriptor(time) >>]),
      Resp(200, [modules |-> <<>>]),
      Resp(200, [info |-> "none"]),
      Resp(500, [message |-> "error"]), NetErr, OtherExc }

FieldsAnswers(time) ==
    { Resp(200, [fields |-> << FieldDescriptor(time) >>]),
      Resp(200, [fields |-> <<>>]),
      Resp(200, [info |-> "none"]),
      Resp(500, [message |-> "error"]), NetErr, OtherExc }

(***************************************************************************)
(* zoho/search.py (Search) and zoho/developments.py (Developments)         *)
(* An exception is [type, text]; the text of an error response is the      *)
(* error code the remote put in it.                                        *)
(***************************************************************************)
Exc(type, text) == [type |-> type, text |-> text]

\* python None where the id of a record is expected
NoneId == "None"

\* exceptions.py: the classes derived from ZohoApiError
IsZohoApiError(e) ==
    e.type \in {"ZohoApiError", "NoteCreationError", "RecordMatchingError", "SearchError"}

\* an error response carrying an error code in its text
ErrResp(status, text) ==
    [kind |-> "response", status |-> status, data |-> <<>>, text |-> text]

\* str.lower() of the texts the remote answers with
LowerText ==
    [SYNTAX_ERROR |-> "syntax_error", INVALID_QUERY |-> "invalid_query",
     LIMIT_EXCEEDED |-> "limit_exceeded", OAUTH_SCOPE_MISMATCH |-> "oauth_scope_mismatch",
     INTERNAL_ERROR |-> "internal_error", timeout |-> "timeout", boom |-> "boom"]

\* "code" in str(error).lower(): the message of the error embeds the text
MentionsLower(e, code) == LowerText[e.text] = code

\* the COQL endpoint as seen on the wire
CoqlWire ==
    { Resp(200, [data |-> << R1, R2 >>]), Resp(200, [data |-> <<>>]),
      Resp(200, [info |-> "none"]),
      ErrResp(400, "SYNTAX_ERROR"), ErrResp(400, "INVALID_QUERY"),
      ErrResp(400, "LIMIT_EXCEEDED"), ErrResp(401, "OAUTH_SCOPE_MISMATCH"),
      ErrResp(500, "INTERNAL_ERROR"),
      [kind |-> "RequestException", status |-> 0, data |-> <<>>, text |-> "timeout"],
      [kind |-> "Exception", status |-> 0, data |-> <<>>, text |-> "boom"] }

\* the search endpoint as seen on the wire
SearchWire ==
    { Resp(200, [data |-> << R2 >>]), Resp(200, [info |-> "none"]),
      Resp(204, [info |-> "none"]), ErrResp(400, "INTERNAL_ERROR"),
      [kind |-> "RequestException", status |-> 0, data |-> <<>>, text |-> "timeout"],
      [kind |-> "Exception", status |-> 0, data |-> <<>>, text |-> "boom"] }

Search_coql_query(answer) ==
    IF answer.kind = "response"
    THEN IF answer.status = 200
         THEN Ret(answer.data)
         ELSE Raise(Exc("SearchError", answer.text))
    ELSE IF answer.kind = "RequestException"
    THEN Raise(Exc("SearchError", answer.text))
    ELSE Raise(Exc("Exception", answer.text))

Search_by_word(answer) ==
    IF answer.kind = "response"
    THEN IF answer.status = 200
         THEN Ret(DictGet(answer.data, "data", <<>>))
         ELSE IF answer.status = 204 THEN Ret(<<>>)
         ELSE Raise(Exc("SearchError", answer.text))
    ELSE IF answer.kind = "RequestException"
    THEN Raise(Exc("SearchError", answer.text))
    ELSE Raise(Exc("Exception", answer.text))

\* what a query method leaves behind: its result and the requests it issued
Asked(result, calls) == [result |-> result, calls |-> calls]

\* variant: the fallback has no try / except of its own
WordFallback_unguarded(word_answer) ==
    LET search_results == Search_by_word(word_answer)
    IN  IF IsRaise(search_results) THEN search_results
        ELSE IF search_results.ret # <<>> THEN Ret(search_results.ret[1].id)
        ELSE Ret(NoneId)

\* the word-search fallback of find_by_address, inside try / except Exception
WordFallback(word_answer) ==
    LET search_results == Search_by_word(word_answer)
    IN  IF IsRaise(search_results) THEN Ret(NoneId)
        ELSE IF search_results.ret # <<>> THEN Ret(search_results.ret[1].id)
        ELSE Ret(NoneId)

\* the bare raise of the scope branch is inside the outer try, whose
\* except Exception logs the error and returns None
ScopeErrorOutcome(coql_error) == Ret(NoneId)

Developments_find_by_address(coql_answer, word_answer) ==
    LET results == Search_coql_query(coql_answer)
    IN  IF ~IsRaise(results)
        THEN IF DictGet(results.ret, "data", <<>>) # <<>>
             THEN Asked(Ret(results.ret.data[1].id), << "coql" >>)
             ELSE Asked(Ret(NoneId), << "coql" >>)
        ELSE IF IsZohoApiError(results.raise)
        THEN IF \/ MentionsLower(results.raise, "syntax_error")
                \/ MentionsLower(results.raise, "invalid_query")
                \/ MentionsLower(results.raise, "limit_exceeded")
             THEN Asked(WordFallback(word_answer), << "coql", "word" >>)
             ELSE IF MentionsLower(results.raise, "oauth_scope_mismatch")
             THEN Asked(ScopeErrorOutcome(results.raise), << "coql" >>)
             ELSE Asked(WordFallback(word_answer), << "coql", "word" >>)
        ELSE Asked(WordFallback(word_answer), << "coql", "word" >>)

(***************************************************************************)
(* zoho/search.py: Search.by_email                                         *)
(***************************************************************************)
\* a field-criteria search as seen on the wire
FieldWire ==
    { Resp(200, [data |-> << R1 >>]), Resp(200, [data |-> << R2 >>]),
      Resp(204, [info |-> "none"]), ErrResp(400, "INTERNAL_ERROR"),
      [kind |-> "Exception", status |-> 0, data |-> <<>>, text |-> "boom"] }

Search_search_records(answer) ==
    IF answer.kind = "response"
    THEN IF answer.status = 200 THEN Ret(answer.data)
         ELSE IF answer.status = 204 THEN Ret([data |-> <<>>])
         ELSE Raise(Exc("SearchError", answer.text))
    ELSE IF answer.kind = "RequestException"
    THEN Raise(Exc("SearchError", answer.text))
    ELSE Raise(Exc("Exception", answer.text))

\* variant: the field names are tried in another order
email_fields_reordered == << "Email_Address", "Email", "Primary_Email", "Contact_Email" >>

email_fields == << "Email", "Email_Address", "Primary_Email", "Contact_Email" >>

\* the for loop over email_fields from position i on, then the COQL query;
\* an exception of the COQL query is wrapped in SearchError
RECURSIVE ByEmailFrom(_, _, _, _)
ByEmailFrom(i, field_answers, coql_answer, calls) ==
    IF i > Len(email_fields)
    THEN LET coql_result == Search_coql_query(coql_answer)
         IN  IF IsRaise(coql_result)
             THEN Asked(Raise(Exc("SearchError", coql_result.raise.text)),
                        Append(calls, "coql"))
             ELSE Asked(Ret(DictGet(coql_result.ret, "data", <<>>)),
                        Append(calls, "coql"))
    ELSE LET result == Search_search_records(field_answers[i])
             issued == Append(calls, email_fields[i])
         IN  IF ~IsRaise(result) /\ DictGet(result.ret, "data", <<>>) # <<>>
             THEN Asked(Ret(result.ret.data), issued)
             ELSE ByEmailFrom(i + 1, field_answers, coql_answer, issued)

Search_by_email(field_answers, coql_answer) ==
    ByEmailFrom(1, field_answers, coql_answer, <<>>)

(***************************************************************************)
(* zoho/search.py: Search.find_by_email                                    *)
(***************************************************************************)
\* variant: the criteria search is issued whatever the COQL query returned
Search_find_by_email_bothQueries(coql_answer, criteria_answer) ==
    LET result == Search_coql_query(coql_answer)
        fallback == Search_search_records(criteria_answer)
    IN  IF ~IsRaise(result) /\ DictGet(result.ret, "data", <<>>) # <<>>
        THEN Asked(Ret(result.ret.data), << "coql", "criteria" >>)
        ELSE IF ~IsRaise(fallback)
        THEN Asked(Ret(DictGet(fallback.ret, "data", <<>>)), << "coql", "criteria" >>)
        ELSE Asked(Ret(<<>>), << "coql", "criteria" >>)

\* the COQL query first; on SearchError the criteria search Email:equals:,
\* whose SearchError gives []; any other exception leaves the method
Search_find_by_email(coql_answer, criteria_answer) ==
    LET result == Search_coql_query(coql_answer)
    IN  IF ~IsRaise(result)
        THEN Asked(Ret(DictGet(result.ret, "data", <<>>)), << "coql" >>)
        ELSE IF result.raise.type = "SearchError"
        THEN LET fallback == Search_search_records(criteria_answer)
             IN  IF ~IsRaise(fallback)
                 THEN Asked(Ret(DictGet(fallback.ret, "data", <<>>)),
                            << "coql", "criteria" >>)
                 ELSE IF fallback.raise.type = "SearchError"
                 THEN Asked(Ret(<<>>), << "coql", "criteria" >>)
                 ELSE Asked(fallback, << "coql", "criteria" >>)
        ELSE Asked(result, << "coql" >>)

(***************************************************************************)
(* zoho/notes.py: Notes.create                                             *)
(***************************************************************************)
\* the notes endpoint as seen on the wire
NotesWire ==
    { Resp(201, [data |-> << [code |-> "SUCCESS", details |-> [id |-> "N1"]] >>]),
      Resp(200, [data |-> << [code |-> "SUCCESS", details |-> [id |-> "N2"]] >>]),
      Resp(201, [data |-> << [code |-> "SUCCESS", message |-> "record added"] >>]),
      Resp(201, [data |-> << [code |-> "INVALID_DATA", message |-> "Invalid note data"] >>]),
      Resp(201, [data |-> << [message |-> "no code"] >>]),
      Resp(201, [data |-> <<>>]),
      Resp(200, [info |-> "none"]),
      ErrResp(400, "INVALID_MODULE"), ErrResp(400, "MANDATORY_NOT_FOUND"),
      ErrResp(400, "INVALID_DATA"), ErrResp(400, "INTERNAL_ERROR"),
      ErrResp(401, "OAUTH_SCOPE_MISMATCH"), ErrResp(401, "INTERNAL_ERROR"),
      ErrResp(403, "INTERNAL_ERROR"), ErrResp(404, "INTERNAL_ERROR"),
      ErrResp(500, "INTERNAL_ERROR"), ErrResp(429, "LIMIT_EXCEEDED"),
      [kind |-> "RequestException", status |-> 0, data |-> <<>>, text |-> "timeout"],
      [kind |-> "Exception", status |-> 0, data |-> <<>>, text |-> "boom"] }

\* the error raised for a status other than 200 / 201
NoteHttpError(status, error_text) ==
    IF status = 400 THEN Exc("NoteCreationError", error_text)
    ELSE IF status = 401 THEN Exc("ZohoApiError", error_text)
    ELSE IF status = 403 THEN Exc("ZohoApiError", error_text)
    ELSE IF status = 404 THEN Exc("NoteCreationError", error_text)
    ELSE IF status = 500 THEN Exc("ZohoApiError", error_text)
    ELSE Exc("NoteCreationError", error_text)

\* variant: a refused item is reported as a result, as create_note of the
\* V8 client does
RefusedItem_softfail(created_note) ==
    Ret([success |-> FALSE, error |-> "Unknown error", details |-> created_note])

\* the first item of the response does not carry the code SUCCESS
RefusedItem(created_note) ==
    Raise(Exc("NoteCreationError", DictGet(created_note, "code", "UNKNOWN")))

Notes_create(answer) ==
    IF answer.kind = "response"
    THEN IF answer.status \in {200, 201}
         THEN IF DictGet(answer.data, "data", <<>>) # <<>>
              THEN LET created_note == answer.data.data[1]
                   IN  IF DictGet(created_note, "code", "None") = "SUCCESS"
                       THEN Ret([success |-> TRUE,
                                 note_id |-> DictGet(DictGet(created_note, "details",
                                                             [none |-> TRUE]),
                                                     "id", NoneId),
                                 details |-> created_note,
                                 data |-> created_note])
                       ELSE RefusedItem(created_note)
              ELSE Raise(Exc("NoteCreationError", "No response data received"))
         ELSE Raise(NoteHttpError(answer.status, answer.text))
    ELSE IF answer.kind = "RequestException"
    THEN Raise(Exc("NoteCreationError", answer.text))
    ELSE Raise(Exc("Exception", answer.text))

(***************************************************************************)
(* The structured-query builders: the COQL text each method sends for a    *)
(* search value (zoho/developments.py, zoho/search.py, the duplicate check *)
(* of ZohoV8EnhancedClient)                                                *)
(***************************************************************************)
Apostrophe == "'"
Backslash == "\\"

\* value.replace("'", "\\'")
EscapeApostrophes(value) == StrReplace(value, << Apostrophe >>, << Backslash, Apostrophe >>)

\* variant: the address is escaped before it is interpolated
Developments_address_query_escaped(address) ==
    <<"\n"," "," "," "," "," "," "," "," "," "," "," "," "," "," "," "," ","S",
          "E","L","E","C","T"," ","i","d",","," ","N","a","m","e",","," ","P",
          "r","o","p","e","r","t","y","_","A","d","d","r","e","s","s","\n"," ",
          " "," "," "," "," "," "," "," "," "," "," "," "," "," "," ","F","R",
          "O","M"," ">>
    \o developments_module \o
    <<"\n"," "," "," "," "," "," "," "," "," "," "," "," "," "," "," "," ","W",
          "H","E","R","E"," ","P","r","o","p","e","r","t","y","_","A","d","d",
          "r","e","s","s"," ","L","I","K","E"," ","'","%">>
    \o EscapeApostrophes(address) \o
    <<"%","'","\n"," "," "," "," "," "," "," "," "," "," "," "," "," "," "," ",
          " ","O","R"," ","N","a","m","e"," ","L","I","K","E"," ","'","%">>
    \o EscapeApostrophes(address) \o
    <<"%","'","\n"," "," "," "," "," "," "," "," "," "," "," "," "," "," "," ",
          " ","L","I","M","I","T"," ","5","\n"," "," "," "," "," "," "," "," ",
          " "," "," "," ">>

\* find_by_address: the f-string address_query
Developments_address_query(address) ==
    <<"\n"," "," "," "," "," "," "," "," "," "," "," "," "," "," "," "," ","S",
          "E","L","E","C","T"," ","i","d",","," ","N","a","m","e",","," ","P",
          "r","o","p","e","r","t","y","_","A","d","d","r","e","s","s","\n"," ",
          " "," "," "," "," "," "," "," "," "," "," "," "," "," "," ","F","R",
          "O","M"," ">>
    \o developments_module \o
    <<"\n"," "," "," "," "," "," "," "," "," "," "," "," "," "," "," "," ","W",
          "H","E","R","E"," ","P","r","o","p","e","r","t","y","_","A","d","d",
          "r","e","s","s"," ","L","I","K","E"," ","'","%">>
    \o address \o
    <<"%","'","\n"," "," "," "," "," "," "," "," "," "," "," "," "," "," "," ",
          " ","O","R"," ","N","a","m","e"," ","L","I","K","E"," ","'","%">>
    \o address \o
    <<"%","'","\n"," "," "," "," "," "," "," "," "," "," "," "," "," "," "," ",
          " ","L","I","M","I","T"," ","5","\n"," "," "," "," "," "," "," "," ",
          " "," "," "," ">>

\* search_by_criteria with one field: no query for an empty value
Developments_criteria_query(field, value) ==
    IF value = <<>> THEN <<>>
    ELSE LET escaped_value == EscapeApostrophes(value)
             condition == field \o <<" ","L","I","K","E"," ","'","%">> \o escaped_value \o <<"%","'">>
         IN  <<"\n"," "," "," "," "," "," "," "," "," "," "," "," "," "," "," "," ","S",
                   "E","L","E","C","T"," ","i","d",","," ","N","a","m","e",","," ","P",
                   "r","o","p","e","r","t","y","_","A","d","d","r","e","s","s",","," ",
                   "E","m","a","i","l",","," ","P","h","o","n","e","\n"," "," "," "," ",
                   " "," "," "," "," "," "," "," "," "," "," "," ","F","R","O","M"," ">>
             \o developments_module \o
             <<"\n"," "," "," "," "," "," "," "," "," "," "," "," "," "," "," "," ","W",
                   "H","E","R","E"," ">>
             \o condition \o
             <<"\n"," "," "," "," "," "," "," "," "," "," "," "," "," "," "," "," ","L",
                   "I","M","I","T"," ","1","0","\n"," "," "," "," "," "," "," "," "," ",
                   " "," "," ">>

\* Search.find_by_email: the COQL query tried first
Search_find_by_email_query(email) ==
    <<"S","E","L","E","C","T"," ","*"," ","F","R","O","M"," ">>
    \o developments_module \o
    <<" ","W","H","E","R","E"," ","E","m","a","i","l"," ","="," ","'">>
    \o email \o << Apostrophe >>

\* check_email_already_processed: notes_query
notes_query(gmail_message_id) ==
    <<"S","E","L","E","C","T"," ","i","d",","," ","P","a","r","e","n","t","_",
          "I","d"," ","F","R","O","M"," ","N","o","t","e","s"," ","W","H","E",
          "R","E"," ","N","o","t","e","_","T","i","t","l","e"," ","l","i","k",
          "e"," ","'","%">>
    \o gmail_message_id \o
    <<"%","'"," ","O","R"," ","N","o","t","e","_","C","o","n","t","e","n","t",
          " ","l","i","k","e"," ","'","%">>
    \o gmail_message_id \o
    <<"%","'"," ","L","I","M","I","T"," ","1","0">>

(***************************************************************************)
(* State                                                                   *)
(***************************************************************************)
VARIABLES
    labelled,           \* mail store: ids of the messages carrying "Processed"
    notes,              \* record store: the notes created so far
    _accounts_cache,    \* processor: the cached listing
    _cache_populated,   \* processor: whether the listing was requested
    passes,             \* number of process_emails / process_specific_email runs
    emails,             \* process_emails: the fetched batch (message ids)
    idx,                \* process_emails: position of the for loop
    pc,                 \* position inside _process_single_email
    done,               \* per message of this batch: how its attempt ended
    email_content,      \* locals of _process_single_email
    development_info,
    plan,
    pi,
    match_result,
    note_result,
    raised_in,          \* the step whose exception is propagating
    log,                \* remote calls issued for the current message
    _module_cache,      \* client: cached module descriptors, by cache key
    _field_cache,       \* client: cached field descriptors, by cache key
    _cache_timestamps,  \* client: time of the last write, by cache key
    now,                \* time.time(), in seconds
    delivered,          \* history: per cache key, the last successful fetch
    last                \* the last call on the client facade and what it did

store == <<labelled, notes>>
cache == <<_accounts_cache, _cache_populated>>
loop == <<passes, emails, idx, done>>
locals == <<email_content, development_info, plan, pi, match_result, note_result, raised_in, log>>
metadata == <<_module_cache, _field_cache, _cache_timestamps>>
facade == <<_module_cache, _field_cache, _cache_timestamps, now, delivered, last>>
pipeline == <<labelled, notes, _accounts_cache, _cache_populated, passes, emails, idx,
              pc, done, email_content, development_info, plan, pi, match_result,
              note_result, raised_in, log>>
vars == <<labelled, notes, _accounts_cache, _cache_populated, passes, emails, idx,
          pc, done, email_content, development_info, plan, pi, match_result, note_result,
          raised_in, log, _module_cache, _field_cache, _cache_timestamps, now, delivered,
          last>>

Init ==
    /\ labelled = {}
    /\ notes = <<>>
    /\ _accounts_cache = <<>>
    /\ _cache_populated = FALSE
    /\ passes = 0
    /\ emails = <<>>
    /\ idx = 1
    /\ pc = "idle"
    /\ done = <<>>
    /\ email_content = NoValue
    /\ development_info = NoValue
    /\ plan = <<>>
    /\ pi = 1
    /\ match_result = NoValue
    /\ note_result = NoValue
    /\ raised_in = "none"
    /\ log = <<>>
    /\ _module_cache = EmptyDict
    /\ _field_cache = EmptyDict
    /\ _cache_timestamps = EmptyDict
    /\ now = 0
    /\ delivered = EmptyDict
    /\ last = NoValue

(***************************************************************************)
(* process_emails / process_specific_email                                 *)
(***************************************************************************)
StartBatch(batch) ==
    /\ passes' = passes + 1
    /\ emails' = batch
    /\ idx' = 1
    /\ done' = <<>>
    /\ pc' = IF batch = <<>> THEN "idle" ELSE "start"
    /\ email_content' = NoValue
    /\ development_info' = NoValue
    /\ plan' = <<>>
    /\ pi' = 1
    /\ match_result' = NoValue
    /\ note_result' = NoValue
    /\ raised_in' = "none"
    /\ log' = <<>>

\* process_emails up to the for loop; an error of the listing ends the run
process_emails ==
    /\ pc = "idle"
    /\ passes < MaxPasses
    /\ \E answer \in {"ok", "error"} :
         LET fetched == get_starred_emails(answer, labelled)
         IN  StartBatch(IF IsRaise(fetched) THEN <<>> ELSE fetched.ret)
    /\ UNCHANGED <<store, cache>>
    /\ UNCHANGED facade

process_specific_email ==
    /\ pc = "idle"
    /\ passes < MaxPasses
    /\ \E msg_id \in MsgIds : StartBatch(<<msg_id>>)
    /\ UNCHANGED <<store, cache>>
    /\ UNCHANGED facade

\* variant: no try / except inside the loop, an exception ends the batch
LoopNext_abort(i, n, raised) == IF raised THEN n + 1 ELSE i + 1

\* for msg in emails: try ... except Exception: log.  The position of the
\* loop after the attempt on emails[i] of n has ended, raised or not
LoopNext(i, n, raised) == i + 1

\* the attempt on emails[idx] has ended: the for loop takes the next message
EndAttempt(how) ==
    /\ done' = Append(done, [id |-> emails[idx], how |-> how])
    /\ idx' = LoopNext(idx, Len(emails), how = "raised")
    /\ pc' = IF idx' > Len(emails) THEN "idle" ELSE "start"
    /\ UNCHANGED <<passes, emails>>

\* an exception leaves _process_single_email
Propagate(step) ==
    /\ pc' = "raised"
    /\ raised_in' = step
    /\ UNCHANGED <<loop>>

\* except Exception of the for loop: log and go on with the next message
LoopExcept ==
    /\ pc = "raised"
    /\ EndAttempt("raised")
    /\ UNCHANGED <<store, cache, locals>>
    /\ UNCHANGED facade

(***************************************************************************)
(* _process_single_email, one action per remote call                       *)
(***************************************************************************)
\* get_message_detail and extract_enhanced_email_content
GetDetail ==
    /\ pc = "start"
    /\ \E answer \in {"ok", "error"} :
         LET detail == get_message_detail(emails[idx], answer)
         IN  /\ log' = << [op |-> "detail", id |-> emails[idx]] >>
             /\ development_info' = NoValue
             /\ plan' = <<>>
             /\ pi' = 1
             /\ match_result' = NoValue
             /\ note_result' = NoValue
             /\ IF IsRaise(detail)
                THEN /\ Propagate("detail")
                     /\ email_content' = NoValue
                ELSE /\ email_content' = detail.ret
                     /\ pc' = "dupcheck"
                     /\ raised_in' = "none"
                     /\ UNCHANGED loop
    /\ UNCHANGED <<store, cache>>
    /\ UNCHANGED facade

\* the duplicate check; a message reported as processed is skipped
DupCheck ==
    /\ pc = "dupcheck"
    /\ \E answer \in CoqlAnswers(notes, email_content.gmail_message_id) :
         LET processed == check_email_already_processed(
                              email_content.gmail_message_id, answer)
         IN  /\ log' = Append(log, [op |-> "dupcheck",
                                    id |-> email_content.gmail_message_id,
                                    matches |-> Len(answer.data),
                                    processed |-> ~IsRaise(processed) /\ processed.ret])
             /\ IF IsRaise(processed)
                THEN Propagate("dupcheck")
                ELSE IF processed.ret
                     THEN /\ EndAttempt("skipped")
                          /\ UNCHANGED raised_in
                     ELSE /\ pc' = "ai"
                          /\ UNCHANGED <<loop, raised_in>>
    /\ UNCHANGED <<store, cache, email_content, development_info, plan, pi,
                   match_result, note_result>>
    /\ UNCHANGED facade

(***************************************************************************)
(* _create_note_with_strategy / _create_fallback_note between remote calls *)
(***************************************************************************)
\* variant: the "no accounts" return forgets the success field
FallbackTarget_nosuccess(accounts) ==
    IF accounts = <<>>
    THEN [pc |-> "noted",
          note_result |-> [error |-> "No accounts available for fallback note creation"]]
    ELSE [pc |-> "note_fallback", note_result |-> NoValue]

\* _create_fallback_note once the cache is populated: no account, no note
FallbackTarget(accounts) ==
    IF accounts = <<>>
    THEN [pc |-> "noted",
          note_result |-> [success |-> FALSE,
                           error |-> "No accounts available for fallback note creation"]]
    ELSE [pc |-> "note_fallback", note_result |-> NoValue]

\* variant: the listing is requested by every fallback
FallbackEntry_alwaysLists(populated, accounts) ==
    [pc |-> "listing", note_result |-> NoValue]

\* entry of _create_fallback_note: the listing is requested only when the
\* cache was never populated
FallbackEntry(populated, accounts) ==
    IF ~populated THEN [pc |-> "listing", note_result |-> NoValue]
    ELSE FallbackTarget(accounts)

\* entry of _create_note_with_strategy
StrategyEntry(match, populated, accounts) ==
    IF match.found THEN [pc |-> "note_matched", note_result |-> NoValue]
    ELSE FallbackEntry(populated, accounts)

\* variant: the result of the fallback note call is not looked at
FallbackOutcome_ignoresResult(account_id, result) ==
    IF IsRaise(result)
    THEN Ret([success |-> FALSE, error |-> "Fallback note creation error"])
    ELSE Ret([success |-> TRUE, development_id |-> account_id,
              message |-> "Fallback note created on account",
              note_id |-> DictGet(result.ret, "note_id", 0)])

\* what _create_fallback_note returns after its note call; the whole body is
\* inside try / except Exception
FallbackOutcome(account_id, result) ==
    IF IsRaise(result)
    THEN Ret([success |-> FALSE, error |-> "Fallback note creation error"])
    ELSE IF result.ret.success
         THEN Ret([success |-> TRUE, development_id |-> account_id,
                   message |-> "Fallback note created on account",
                   note_id |-> DictGet(result.ret, "note_id", 0)])
         ELSE Ret([success |-> FALSE, error |-> "Fallback note creation failed"])

\* variant: the early return after a successful matched note is missing
MatchedOutcome_fallthrough(development_id, result, populated, accounts) ==
    IF IsRaise(result) THEN result
    ELSE Ret(FallbackEntry(populated, accounts))

\* _create_note_with_strategy after the note call on the matched record:
\* return on success, otherwise fall through to _create_fallback_note
MatchedOutcome(development_id, result, populated, accounts) ==
    IF IsRaise(result) THEN result
    ELSE IF result.ret.success
         THEN Ret([pc |-> "noted",
                   note_result |->
                       [success |-> TRUE, development_id |-> development_id,
                        message |-> "Note created on matched development",
                        note_id |-> DictGet(result.ret, "note_id", 0)]])
         ELSE Ret(FallbackEntry(populated, accounts))

\* the matching has returned `match`: _create_note_with_strategy starts
\* variant: the match is recorded and the probing goes on
MatchReturns_keepsProbing(match) ==
    /\ match_result' = match
    /\ UNCHANGED <<pc, note_result>>

\* return of _find_matching_development_smart: _process_single_email goes on
\* with _create_note_with_strategy
MatchReturns(match) ==
    LET entry == StrategyEntry(match, _cache_populated, _accounts_cache)
    IN  /\ match_result' = match
        /\ pc' = entry.pc
        /\ note_result' = entry.note_result

\* the note the store keeps when it accepts the POST
StoredNote(parent_id) ==
    [parent |-> parent_id, gmail_message_id |-> email_content.gmail_message_id]

(***************************************************************************)
(* _process_single_email, continued                                        *)
(***************************************************************************)
\* the AI extraction, then _find_matching_development_smart up to its
\* first search
AIExtract ==
    /\ pc = "ai"
    /\ \E answer \in {"ok", "fallback", "error"} :
         LET info == extract_development_info_and_summary(email_content, answer)
         IN  /\ log' = Append(log, [op |-> "ai"])
             /\ pi' = 1
             /\ IF IsRaise(info)
                THEN /\ Propagate("ai")
                     /\ UNCHANGED <<development_info, plan, match_result, note_result>>
                ELSE LET probes == ProbePlan(email_content, info.ret)
                     IN  /\ development_info' = info.ret
                         /\ plan' = probes
                         /\ UNCHANGED <<loop, raised_in>>
                         /\ IF probes = <<>>
                            THEN MatchReturns(NoMatch)
                            ELSE /\ pc' = "match"
                                 /\ UNCHANGED <<match_result, note_result>>
    /\ UNCHANGED <<store, cache, email_content>>
    /\ UNCHANGED facade

\* one probe of _find_matching_development_smart
Probe ==
    /\ pc = "match"
    /\ \E answer \in SearchAnswers :
         LET p == plan[pi]
             results == _word_search_safe(p.term, answer)
             found == IF IsRaise(results) THEN <<>> ELSE results.ret
         IN  /\ log' = IF WordSearchIssued(p.term)
                       THEN Append(log, [op |-> "search", term |-> p.term,
                                         ids |-> [i \in 1..Len(found) |-> found[i].id]])
                       ELSE log
             /\ IF IsRaise(results)
                THEN /\ Propagate("match")
                     /\ UNCHANGED <<pi, match_result, note_result>>
                ELSE /\ UNCHANGED <<loop, raised_in>>
                     /\ IF found # <<>>
                        THEN /\ MatchReturns(Hit(found, p.label, p.term, p.confidence))
                             /\ UNCHANGED pi
                        ELSE /\ pi' = pi + 1
                             /\ IF pi = Len(plan)
                                THEN MatchReturns(NoMatch)
                                ELSE UNCHANGED <<pc, match_result, note_result>>
    /\ UNCHANGED <<store, cache, email_content, development_info, plan>>
    /\ UNCHANGED facade

\* Strategy 1 of _create_note_with_strategy: the note on the matched record
CreateNoteMatched ==
    /\ pc = "note_matched"
    /\ \E answer \in NoteAnswers(Len(notes) + 1) :
         LET development_id == match_result.development_id
             result == _create_note_safe(development_id, answer)
             outcome == MatchedOutcome(development_id, result,
                                       _cache_populated, _accounts_cache)
         IN  /\ notes' = IF NoteStored(answer)
                         THEN Append(notes, StoredNote(development_id))
                         ELSE notes
             /\ log' = Append(log, [op |-> "note", parent |-> development_id,
                                    path |-> "matched", stored |-> NoteStored(answer),
                                    success |-> ~IsRaise(result) /\ result.ret.success,
                                    title |-> NoteTitleSent(
                                                  MatchedTitle(email_content.subject)),
                                    content |-> MatchedContent(match_result)])
             /\ IF IsRaise(outcome)
                THEN /\ Propagate("note")
                     /\ UNCHANGED note_result
                ELSE /\ UNCHANGED <<loop, raised_in>>
                     /\ note_result' = outcome.ret.note_result
                     /\ pc' = outcome.ret.pc
    /\ UNCHANGED <<labelled, cache, email_content, development_info, plan, pi,
                   match_result>>
    /\ UNCHANGED facade

\* _create_fallback_note: _populate_accounts_cache and the check that follows
ResolveFallback ==
    /\ pc = "listing"
    /\ \E answer \in ListAnswers :
         LET accounts == _populate_accounts_cache(answer)
             entry == FallbackTarget(accounts)
         IN  /\ _accounts_cache' = accounts
             /\ _cache_populated' = TRUE
             /\ log' = Append(log, [op |-> "list"])
             /\ pc' = entry.pc
             /\ note_result' = entry.note_result
    /\ UNCHANGED <<store, loop, email_content, development_info, plan, pi,
                   match_result, raised_in>>
    /\ UNCHANGED facade

\* _create_fallback_note: the note on the first cached account
CreateNoteFallback ==
    /\ pc = "note_fallback"
    /\ \E answer \in NoteAnswers(Len(notes) + 1) :
         LET account_id == _accounts_cache[1].id
             result == _create_note_safe(account_id, answer)
             outcome == FallbackOutcome(account_id, result)
         IN  /\ notes' = IF NoteStored(answer)
                         THEN Append(notes, StoredNote(account_id))
                         ELSE notes
             /\ log' = Append(log, [op |-> "note", parent |-> account_id,
                                    path |-> "fallback", stored |-> NoteStored(answer),
                                    success |-> ~IsRaise(result) /\ result.ret.success,
                                    title |-> NoteTitleSent(
                                                  FallbackTitle(email_content.subject)),
                                    content |-> FallbackContent(match_result)])
             /\ IF IsRaise(outcome)
                THEN /\ Propagate("note")
                     /\ UNCHANGED note_result
                ELSE /\ note_result' = outcome.ret
                     /\ pc' = "noted"
                     /\ UNCHANGED <<loop, raised_in>>
    /\ UNCHANGED <<labelled, cache, email_content, development_info, plan, pi,
                   match_result>>
    /\ UNCHANGED facade

\* variant: the label is added whatever the outcome
NoteSucceeded_always(result) == TRUE

\* the test `if note_result['success']` of _process_single_email
NoteSucceeded(result) == result.success

\* if note_result['success']: attachments, then the Processed label;
\* else the error is logged.  add_processed_label swallows its own errors.
HandleNoteResult ==
    /\ pc = "noted"
    /\ IF "success" \notin DOMAIN note_result
       THEN /\ Propagate("result")
            /\ UNCHANGED <<labelled, log>>
       ELSE /\ UNCHANGED raised_in
            /\ IF NoteSucceeded(note_result)
               THEN /\ \E answer \in {"ok", "error"} :
                         labelled' = add_processed_label(emails[idx], answer, labelled)
                    /\ log' = Append(log, [op |-> "label", id |-> emails[idx]])
                    /\ EndAttempt("success")
               ELSE /\ UNCHANGED <<labelled, log>>
                    /\ EndAttempt("failed")
    /\ UNCHANGED <<notes, cache, email_content, development_info, plan, pi,
                   match_result, note_result>>
    /\ UNCHANGED facade

Next ==
    \/ process_emails
    \/ process_specific_email
    \/ LoopExcept
    \/ GetDetail
    \/ DupCheck
    \/ AIExtract
    \/ Probe
    \/ CreateNoteMatched
    \/ ResolveFallback
    \/ CreateNoteFallback
    \/ HandleNoteResult

Spec == Init /\ [][Next]_vars

(***************************************************************************)
(* main: run / monitor mode under Ctrl-C.  KeyboardInterrupt is not an     *)
(* Exception: no except Exception of the processor or of the clients       *)
(* catches it, it leaves process_emails wherever it arrives and is caught  *)
(* in main, which ends the run.                                            *)
(***************************************************************************)
KeyboardInterrupt ==
    /\ pc # "stopped"
    /\ pc' = "stopped"
    /\ done' = IF pc = "idle" THEN done
               ELSE Append(done, [id |-> emails[idx], how |-> "interrupted"])
    /\ UNCHANGED <<store, cache, passes, emails, idx, locals>>
    /\ UNCHANGED facade

InterruptNext ==
    \/ Next
    \/ KeyboardInterrupt

InterruptSpec == Init /\ [][InterruptNext]_vars

(***************************************************************************)
(* The descriptor getters over time: each action is one call of a getter   *)
(* at the current time; Tick lets time pass between calls.                 *)
(***************************************************************************)
CacheState == [module |-> _module_cache, field |-> _field_cache,
               timestamps |-> _cache_timestamps]

\* the payload the remote hands out when it answers a fetch with success
DeliveredBy(kind, answer) ==
    IF answer.kind # "response" THEN NoValue
    ELSE IF answer.status # 200 THEN NoValue
    ELSE IF kind = "fields" THEN [payload |-> DictGet(answer.data, "fields", <<>>)]
    ELSE IF kind = "modules" THEN [payload |-> DictGet(answer.data, "modules", <<>>)]
    ELSE IF DictGet(answer.data, "modules", <<>>) # <<>>
    THEN [payload |-> answer.data.modules[1]]
    ELSE NoValue

\* the settings endpoint answered with a non-200 status or the transport failed
FetchFailed(answer) ==
    \/ answer.kind = "RequestException"
    \/ answer.kind = "response" /\ answer.status # 200

\* one call of a getter: the cache is what the getter left, the history
\* records a successful fetch, last records the call
Request(getter, cache_key, kind, answer, out) ==
    LET fresh == IF out.calls = <<>> THEN NoValue ELSE DeliveredBy(kind, answer)
    IN  /\ _module_cache' = out.cs.module
        /\ _field_cache' = out.cs.field
        /\ _cache_timestamps' = out.cs.timestamps
        /\ delivered' = IF fresh = NoValue THEN delivered
                        ELSE DictPut(delivered, cache_key,
                                     [at |-> now, payload |-> fresh.payload,
                                      returned |-> out.result])
        /\ last' = [op |-> getter, key |-> cache_key, at |-> now,
                    prior |-> DictGet(delivered, cache_key, NoValue),
                    calls |-> out.calls, result |-> out.result, fresh |-> fresh,
                    failed |-> out.calls # <<>> /\ FetchFailed(answer)]
        /\ UNCHANGED <<now, pipeline>>

DiscoverModules ==
    \E answer \in ModulesAnswers(now) :
        Request("discover_modules", ModulesKey, "modules", answer,
                discover_modules(CacheState, now, answer))

GetModuleMetadata ==
    \E answer \in ModulesAnswers(now) :
        Request("get_module_metadata", ModulesMetadataKey(developments_module),
                "metadata", answer,
                get_module_metadata(CacheState, now, developments_module, answer))

GetFieldMetadata ==
    \E answer \in FieldsAnswers(now) :
        Request("get_field_metadata", FieldsMetadataKey(developments_module),
                "fields", answer,
                get_field_metadata(CacheState, now, developments_module, answer))

ModulesDiscover ==
    \E answer \in ModulesAnswers(now) :
        Request("Modules_discover", ModulesKey, "modules", answer,
                Modules_discover(CacheState, now, answer))

ModulesGetMetadata ==
    \E answer \in ModulesAnswers(now) :
        Request("Modules_get_metadata", MetadataKey(developments_module),
                "metadata", answer,
                Modules_get_metadata(CacheState, now, developments_module, answer))

ModulesGetFields ==
    \E answer \in FieldsAnswers(now) :
        Request("Modules_get_fields", FieldsKey(developments_module),
                "fields", answer,
                Modules_get_fields(CacheState, now, developments_module, answer))

\* time passes between two calls, half a day at a time
Tick ==
    \E hours \in {12} :
        /\ now + hours * 3600 <= MaxHours * 3600
        /\ now' = now + hours * 3600
        /\ last' = NoValue
        /\ UNCHANGED <<metadata, delivered, pipeline>>

CacheNext ==
    \/ DiscoverModules
    \/ GetModuleMetadata
    \/ GetFieldMetadata
    \/ ModulesDiscover
    \/ ModulesGetMetadata
    \/ ModulesGetFields
    \/ Tick

CacheSpec == Init /\ [][CacheNext]_vars

(***************************************************************************)
(* The query methods of the modular client: each action is one call, with  *)
(* the answers the remote gives to the requests the call may issue         *)
(***************************************************************************)
Query(op, answers, out) ==
    /\ last = NoValue
    /\ last' = [op |-> op, answers |-> answers, calls |-> out.calls,
                result |-> out.result]
    /\ UNCHANGED <<metadata, now, delivered, pipeline>>

\* the call is over and the caller goes on
Return ==
    /\ last # NoValue
    /\ last' = NoValue
    /\ UNCHANGED <<metadata, now, delivered, pipeline>>

FindByAddress ==
    \E coql_answer \in CoqlWire, word_answer \in SearchWire :
        Query("find_by_address", [coql |-> coql_answer, word |-> word_answer],
              Developments_find_by_address(coql_answer, word_answer))

FindByEmail ==
    \E coql_answer \in CoqlWire, criteria_answer \in FieldWire :
        Query("find_by_email", [coql |-> coql_answer, criteria |-> criteria_answer],
              Search_find_by_email(coql_answer, criteria_answer))

NotesCreate ==
    \E answer \in NotesWire :
        Query("Notes_create", [post |-> answer], Asked(Notes_create(answer), << "post" >>))

ByEmail ==
    \E field_answers \in [1..4 -> FieldWire], coql_answer \in CoqlWire :
        Query("by_email", [fields |-> field_answers, coql |-> coql_answer],
              Search_by_email(field_answers, coql_answer))

QueryNext ==
    \/ FindByAddress
    \/ FindByEmail
    \/ NotesCreate
    \/ ByEmail
    \/ Return

QuerySpec == Init /\ [][QueryNext]_vars

(***************************************************************************)
(* The title of a note, for subjects of every length on both paths:        *)
(* _create_note_with_strategy / _create_fallback_note up to the payload    *)
(* of create_note                                                          *)
(***************************************************************************)
TitleOnMatchedPath ==
    \E n \in 0..MaxSubjectLen :
        LET subject == SubjectOfLength(n)
        IN  /\ last' = [op |-> "note_title", path |-> "matched", subject |-> subject,
                        title |-> MatchedTitle(subject),
                        sent |-> NoteTitleSent(MatchedTitle(subject))]
            /\ UNCHANGED <<metadata, now, delivered, pipeline>>

TitleOnFallbackPath ==
    \E n \in 0..MaxSubjectLen :
        LET subject == SubjectOfLength(n)
        IN  /\ last' = [op |-> "note_title", path |-> "fallback", subject |-> subject,
                        title |-> FallbackTitle(subject),
                        sent |-> NoteTitleSent(FallbackTitle(subject))]
            /\ UNCHANGED <<metadata, now, delivered, pipeline>>

TitleNext ==
    \/ TitleOnMatchedPath
    \/ TitleOnFallbackPath

TitleSpec == Init /\ [][TitleNext]_vars

(***************************************************************************)
(* The query builders on search values with and without apostrophes: each  *)
(* action is one call up to the query it sends                             *)
(***************************************************************************)
\* the characters of the search values: a letter, the apostrophe, the
\* backslash
ValueChars == {"a", Apostrophe, Backslash}

QueryValues == UNION { [1..n -> ValueChars] : n \in 0..MaxValueLen }

Built(op, value, query) ==
    /\ last = NoValue
    /\ last' = [op |-> op, value |-> value, query |-> query]
    /\ UNCHANGED <<metadata, now, delivered, pipeline>>

BuildAddressQuery ==
    \E address \in QueryValues :
        Built("find_by_address", address, Developments_address_query(address))

BuildCriteriaQuery ==
    \E value \in QueryValues :
        Built("search_by_criteria", value,
              Developments_criteria_query(<<"N","a","m","e">>, value))

BuildEmailQuery ==
    \E email \in QueryValues :
        Built("find_by_email", email, Search_find_by_email_query(email))

BuildNotesQuery ==
    \E gmail_message_id \in QueryValues :
        Built("check_email_already_processed", gmail_message_id,
              notes_query(gmail_message_id))

BuilderNext ==
    \/ BuildAddressQuery
    \/ BuildCriteriaQuery
    \/ BuildEmailQuery
    \/ BuildNotesQuery
    \/ Return

BuilderSpec == Init /\ [][BuilderNext]_vars

(***************************************************************************)
(* _find_matching_development_smart on its own: emails with no, one and    *)
(* two sender addresses, and texts with fewer and with more keywords than  *)
(* the strategies try                                                      *)
(***************************************************************************)
SenderLists ==
    { <<>>,
      << <<"j","a","n","e","@","o","a","k",".","c","o">> >>,
      << <<"j","a","n","e","@","o","a","k",".","c","o">>,
         <<"b","o","b","@","e","l","m",".","u","k">> >> }

SubjectTexts ==
    { <<"R","e",":"," ","u","r","g","e","n","t">>,
      <<"S","i","t","e"," ","p","l","a","n","s"," ","n","o","r","t","h"," ","w","i","n","g"," ","p","h","a","s","e">> }

AddressTexts ==
    { None,
      <<"1","2"," ","E","l","m"," ","R","o","a","d",","," ","K","e","n","t">>,
      <<"F","l","a","t"," ","4"," ","M","i","l","l"," ","L","a","n","e"," ","W","e","s","t"," ","K","e","n","t"," ","H","y","t","h","e">> }

ClientTexts ==
    { None,
      <<"A","c","m","e"," ","B","u","i","l","d"," ","P","a","r","t","n","e","r","s"," ","L","t","d">> }

DevelopmentTexts ==
    { None,
      <<"E","l","m","-","P","a","r","k"," ","H","o","m","e","s">> }

\* the arguments of _find_matching_development_smart
MatchInputs ==
    { [content |-> [gmail_message_id |-> "m1", subject |-> subject, from |-> senders],
       info |-> [property_address |-> address, client_name |-> client,
                 development_name |-> development]] :
        senders \in SenderLists, subject \in SubjectTexts, address \in AddressTexts,
        client \in ClientTexts, development \in DevelopmentTexts }

\* _find_matching_development_smart(email_content, development_info) up to
\* its first search
FindMatchingDevelopmentSmart ==
    /\ pc = "idle"
    /\ \E input \in MatchInputs :
         LET probes == ProbePlan(input.content, input.info)
         IN  /\ email_content' = input.content
             /\ development_info' = input.info
             /\ plan' = probes
             /\ pi' = 1
             /\ log' = <<>>
             /\ IF probes = <<>>
                THEN MatchReturns(NoMatch)
                ELSE /\ pc' = "match"
                     /\ match_result' = NoValue
                     /\ note_result' = NoValue
    /\ UNCHANGED <<store, cache, loop, raised_in>>
    /\ UNCHANGED facade

\* the caller has taken the result of the matching
MatchReturned ==
    /\ pc \in {"note_matched", "listing", "noted", "note_fallback"}
    /\ pc' = "idle"
    /\ email_content' = NoValue
    /\ development_info' = NoValue
    /\ plan' = <<>>
    /\ pi' = 1
    /\ match_result' = NoValue
    /\ note_result' = NoValue
    /\ log' = <<>>
    /\ UNCHANGED <<store, cache, loop, raised_in>>
    /\ UNCHANGED facade

MatchNext ==
    \/ FindMatchingDevelopmentSmart
    \/ Probe
    \/ MatchReturned

MatchSpec == Init /\ [][MatchNext]_vars

(***************************************************************************)
(* Properties                                                              *)
(***************************************************************************)
\* the calls of one kind issued for the current message, in order
Calls(op) == SelectSeq(log, LAMBDA e : e.op = op)
NoteCalls == Calls("note")
SearchCalls == Calls("search")

\* _create_note_with_strategy has returned for the current message
NoteReturned == note_result # NoValue

\* C1: whatever the match result and whatever the record store answers or
\* raises, _create_note_with_strategy returns an outcome whose success field
\* is True or False, and no exception leaves it.
C1_OutcomeAlwaysSet ==
    /\ ~(pc = "raised" /\ raised_in \in {"note", "result"})
    /\ (pc = "noted" => /\ "success" \in DOMAIN note_result
                        /\ note_result.success \in BOOLEAN)
    /\ (NoteReturned => "success" \in DOMAIN note_result)

\* a matched note and a fallback note both failed, and the call returned
C1_Witness ==
    /\ pc = "noted"
    /\ Len(NoteCalls) = 2
    /\ ~NoteCalls[1].success /\ ~NoteCalls[2].success
    /\ note_result.success = FALSE

\* C2: when matching found nothing, the listing gave at least one record and
\* the store accepts the note, exactly one note is created, on the first
\* listed record, and the outcome is success=True with that record's id.
C2_FallbackNoteOnFirstListed ==
    ( /\ NoteReturned
      /\ match_result = NoMatch
      /\ _accounts_cache # <<>>
      /\ NoteCalls # <<>>
      /\ NoteCalls[Len(NoteCalls)].stored )
    => /\ Len(NoteCalls) = 1
       /\ NoteCalls[1].parent = _accounts_cache[1].id
       /\ NoteCalls[1].path = "fallback"
       /\ note_result.success = TRUE
       /\ note_result.development_id = _accounts_cache[1].id
       /\ notes # <<>>
       /\ notes[Len(notes)] = [parent |-> _accounts_cache[1].id,
                               gmail_message_id |-> email_content.gmail_message_id]

\* the signal-free message m2 got its fallback note on the record listed first
C2_Witness ==
    /\ pc = "noted"
    /\ email_content.gmail_message_id = "m2"
    /\ match_result = NoMatch
    /\ Calls("list") # <<>>
    /\ _accounts_cache = <<R2, R1>>
    /\ note_result.success = TRUE
    /\ note_result.development_id = "R2"

\* C3 (as claimed): after the note on the matched record failed, no further
\* note-creation call is issued on that same record id for this message.
C3_NoRetryOnSameRecord ==
    \A i, j \in 1..Len(NoteCalls) :
        (i < j /\ NoteCalls[i].path = "matched" /\ ~NoteCalls[i].success)
            => NoteCalls[j].parent # NoteCalls[i].parent

\* C4: for one message at most one note-creation call returns success, no
\* note call follows a successful one, and at most two note calls are issued,
\* at most one on the matched record and at most one on the fallback record.
C4_AtMostOneSuccessfulNote ==
    /\ Len(NoteCalls) <= 2
    /\ Cardinality({i \in 1..Len(NoteCalls) : NoteCalls[i].success}) <= 1
    /\ \A i \in 1..Len(NoteCalls) : NoteCalls[i].success => i = Len(NoteCalls)
    /\ Cardinality({i \in 1..Len(NoteCalls) : NoteCalls[i].path = "matched"}) <= 1
    /\ Cardinality({i \in 1..Len(NoteCalls) : NoteCalls[i].path = "fallback"}) <= 1

\* the matched note succeeded and the call returned without a fallback note
C4_Witness ==
    /\ pc = "noted"
    /\ Len(NoteCalls) = 1
    /\ NoteCalls[1].path = "matched" /\ NoteCalls[1].success
    /\ note_result.success = TRUE

\* C5 (as claimed): when the duplicate check is made for a message id that a
\* stored note embeds, and the store answers the query with that note, the
\* check reports the message as processed and no note is created in this
\* pass.
C5_DuplicateCheckSkips ==
    \A i \in 1..Len(log) :
        (log[i].op = "dupcheck" /\ log[i].matches > 0)
            => /\ log[i].processed
               /\ NoteCalls = <<>>

\* the Processed label was requested for the current message
LabelIssued == \E i \in 1..Len(log) : log[i].op = "label"

\* how the last ended attempt of this batch ended
LastHow == IF done = <<>> THEN "none" ELSE done[Len(done)].how

\* C6: the label is requested only for a message whose note outcome is
\* success=True, after the note call that succeeded; the label set changes
\* only by that request; an attempt that ends failed or raised requests no
\* label and leaves the label set as it was.
C6_LabelOnlyAfterSuccess ==
    [][ /\ (LabelIssued' /\ ~LabelIssued)
            => /\ pc = "noted"
               /\ note_result.success = TRUE
               /\ \E j \in 1..Len(log) : log[j].op = "note" /\ log[j].success
        /\ (labelled' # labelled)
            => /\ LabelIssued' /\ ~LabelIssued
               /\ labelled' = labelled \cup {emails[idx]}
        /\ (Len(done') > Len(done) /\ LastHow' \in {"failed", "raised"})
            => /\ labelled' = labelled
               /\ ~LabelIssued'
      ]_vars

\* a message got its note and then its label
C6_Witness ==
    /\ pc \in {"idle", "start"}
    /\ LastHow = "success"
    /\ LabelIssued
    /\ log[Len(log) - 1].op = "note" /\ log[Len(log) - 1].success
    /\ done[Len(done)].id \in labelled

\* _create_fallback_note was entered for the current message
FallbackEntered ==
    /\ match_result # NoValue
    /\ \/ ~match_result.found
       \/ /\ NoteCalls # <<>>
          /\ NoteCalls[1].path = "matched" /\ ~NoteCalls[1].success

\* C7: when the fallback target cannot be resolved (no account after the
\* listing) or the note on the fallback record fails, the returned outcome
\* is success=False with an error text, no label is requested and the
\* attempt ends as failed.
C7_FallbackFailureSurfaces ==
    ( /\ FallbackEntered
      /\ NoteReturned
      /\ \/ _accounts_cache = <<>>
         \/ \E i \in 1..Len(NoteCalls) :
                NoteCalls[i].path = "fallback" /\ ~NoteCalls[i].success )
    => /\ note_result.success = FALSE
       /\ "error" \in DOMAIN note_result
       /\ ~LabelIssued
       /\ (pc \in {"idle", "start"} => LastHow = "failed")

\* the listing was requested, gave no account, and the attempt ended failed
C7_Witness ==
    /\ pc \in {"idle", "start"}
    /\ Calls("list") # <<>>
    /\ _accounts_cache = <<>>
    /\ NoteCalls = <<>>
    /\ LastHow = "failed"
    /\ note_result.success = FALSE

\* C8: whatever happens to one message (a failed outcome or an exception of
\* a collaborator), the attempts of a batch are made in list order, one per
\* listed message, and the batch ends only when every message had its
\* attempt.
C8_BatchNeverAborted ==
    /\ Len(done) <= Len(emails)
    /\ \A i \in 1..Len(done) : done[i].id = emails[i]
    /\ (pc = "idle" => Len(done) = Len(emails))
    /\ (pc # "idle" => idx = Len(done) + 1 /\ idx <= Len(emails))

\* the first message of a batch of two raised, the second was still attempted
C8_Witness ==
    /\ pc = "idle"
    /\ Len(emails) = 2
    /\ Len(done) = 2
    /\ done[1].how = "raised"
    /\ done[2].how = "success"

\* the terms of the five categories in the order of the claim: per sender the
\* domain, then the username when longer than 3; the first 3 address
\* keywords; the first 2 client-name keywords; the first 2 development-name
\* keywords; the first 3 subject keywords
RECURSIVE SenderTerms(_)
SenderTerms(senders) ==
    IF senders = <<>> THEN <<>>
    ELSE LET parts == StrSplitOn(Head(senders), "@")
         IN  (IF Len(parts) < 2 THEN <<>>
              ELSE <<parts[2]>> \o (IF Len(parts[1]) > 3 THEN <<parts[1]>> ELSE <<>>))
             \o SenderTerms(Tail(senders))

AddressTerms ==
    IF Truthy(development_info.property_address)
    THEN Take(_extract_address_keywords(development_info.property_address), 3)
    ELSE <<>>

ClientTerms ==
    IF Truthy(development_info.client_name)
    THEN Take(_extract_company_keywords(development_info.client_name), 2)
    ELSE <<>>

DevelopmentTerms ==
    IF Truthy(development_info.development_name)
    THEN Take(_extract_company_keywords(development_info.development_name), 2)
    ELSE <<>>

SubjectTerms ==
    IF Truthy(email_content.subject)
    THEN Take(_extract_subject_keywords(email_content.subject), 3)
    ELSE <<>>

TermsInOrder ==
    SenderTerms(email_content.from) \o AddressTerms \o ClientTerms
        \o DevelopmentTerms \o SubjectTerms

\* C9: the probes follow the fixed category order, each is issued only after
\* all earlier ones returned nothing, the first probe that returns a record
\* ends the matching with the id of the first record of that probe, and
\* found=False / 'no_match' / 'none' is returned exactly when every term of
\* the five categories was probed without a hit.
C9_FirstHitInFixedOrder ==
    (development_info # NoValue) =>
        LET probed == SearchCalls
            terms == TermsInOrder
            n == Len(probed)
        IN  /\ n <= Len(terms)
            /\ \A i \in 1..n : probed[i].term = terms[i]
            /\ \A i \in 1..(n - 1) : probed[i].ids = <<>>
            /\ (match_result = NoValue /\ pc = "match")
                   => \A i \in 1..n : probed[i].ids = <<>>
            /\ (match_result # NoValue) =>
                   IF match_result.found
                   THEN /\ n > 0
                        /\ probed[n].ids # <<>>
                        /\ match_result.development_id = probed[n].ids[1]
                        /\ match_result.method.term = probed[n].term
                   ELSE /\ n = Len(terms)
                        /\ \A i \in 1..n : probed[i].ids = <<>>
                        /\ match_result = [found |-> FALSE, method |-> "no_match",
                                           confidence |-> "none"]

\* sender and address probes found nothing, the client name hit: the match
\* is the first record of that fifth probe
C9_Witness ==
    /\ match_result # NoValue
    /\ match_result.found
    /\ Len(SearchCalls) = 5
    /\ SearchCalls[5].term = <<"A","c","m","e">>
    /\ SearchCalls[5].ids = <<"R2", "R1">>
    /\ match_result.development_id = "R2"

\* position of the hit inside its category (the hit is the last probe)
HitIndexAfter(earlier) == Len(SearchCalls) - Len(earlier)

\* C10: the confidence of a found match is set by the term that hit: sender
\* domain high (with the first record's id and a method naming the domain),
\* sender username medium, first address keyword high and later ones medium,
\* second company keyword medium, subject keyword low; never 'none'.
C10_ConfidenceByTerm ==
    (match_result # NoValue /\ match_result.found) =>
        LET label == match_result.method.label
            term == match_result.method.term
            confidence == match_result.confidence
            senders == SenderTerms(email_content.from)
            inAddress == HitIndexAfter(senders)
            inClient == HitIndexAfter(senders \o AddressTerms)
            inDevelopment == HitIndexAfter(senders \o AddressTerms \o ClientTerms)
        IN  /\ confidence \in {"high", "medium", "low"}
            /\ label \in {"Email domain", "Email username", "Address part",
                          "Company part", "Subject keyword"}
            /\ (label = "Email domain")
                   => /\ confidence = "high"
                      /\ \E i \in 1..Len(email_content.from) :
                             term = StrSplitOn(email_content.from[i], "@")[2]
                      /\ match_result.development_id
                             = SearchCalls[Len(SearchCalls)].ids[1]
            /\ (label = "Email username") => confidence = "medium"
            /\ (label = "Address part")
                   => confidence = (IF inAddress = 1 THEN "high" ELSE "medium")
            /\ (label = "Company part"
                    /\ \/ (inClient = 2 /\ Len(ClientTerms) = 2)
                       \/ (inClient > Len(ClientTerms) /\ inDevelopment = 2))
                   => confidence = "medium"
            /\ (label = "Subject keyword") => confidence = "low"

\* the second address keyword hit: confidence medium
C10_Witness ==
    /\ match_result # NoValue
    /\ match_result.found
    /\ match_result.method = [label |-> "Address part", term |-> <<"K","e","n","t">>]
    /\ match_result.confidence = "medium"

(***************************************************************************)
(* Metadata cache (CacheSpec)                                              *)
(***************************************************************************)
\* the last call was a call of a descriptor getter
GetterCalled == last # NoValue /\ last.op \in DOMAIN TtlHours

\* the end of the time to live opened by the successful fetch before the last call
PriorExpiry == last.prior.at + TtlHours[last.op] * 3600

\* the payload the cache holds for a key is p
Stored(key, p) ==
    \/ key \in DOMAIN _module_cache /\ _module_cache[key] = p
    \/ key \in DOMAIN _field_cache /\ _field_cache[key] = p

\* the requests a getter would issue if it were called now
Reask(op, answer) ==
    IF op = "discover_modules" THEN discover_modules(CacheState, now, answer).calls
    ELSE IF op = "get_module_metadata"
    THEN get_module_metadata(CacheState, now, developments_module, answer).calls
    ELSE IF op = "get_field_metadata"
    THEN get_field_metadata(CacheState, now, developments_module, answer).calls
    ELSE IF op = "Modules_discover" THEN Modules_discover(CacheState, now, answer).calls
    ELSE IF op = "Modules_get_metadata"
    THEN Modules_get_metadata(CacheState, now, developments_module, answer).calls
    ELSE Modules_get_fields(CacheState, now, developments_module, answer).calls

\* C11: for each of the six descriptor getters, a request for a key made
\* earlier than T0 + ttl, T0 being the time of the last successful fetch of
\* that key, issues no network call and returns the payload fetched at T0
C11_CachedWithinTtl ==
    (GetterCalled /\ last.prior # NoValue /\ last.at < PriorExpiry)
        => /\ last.calls = <<>>
           /\ last.result = Ret(last.prior.payload)

\* C12: the first request for a key at or after T0 + ttl issues exactly one
\* fetch; when the fetch succeeds the stored payload and the stored timestamp
\* of the key are both those of this fetch, and a request that follows at
\* once issues no fetch
C12_RefetchReplacesBoth ==
    (GetterCalled /\ last.prior # NoValue /\ last.at >= PriorExpiry)
        => /\ Len(last.calls) = 1
           /\ last.fresh # NoValue
                => /\ last.key \in DOMAIN _cache_timestamps
                   /\ _cache_timestamps[last.key] = last.at
                   /\ Stored(last.key, last.fresh.payload)
                   /\ \A answer \in ModulesAnswers(now) \cup FieldsAnswers(now) :
                          Reask(last.op, answer) = <<>>

(***************************************************************************)
(* Query methods (QuerySpec)                                               *)
(***************************************************************************)
\* the remote refused the structured query for lack of an OAuth scope
ScopeError(answer) ==
    answer.kind = "response" /\ answer.status # 200 /\ answer.text = "OAUTH_SCOPE_MISMATCH"

\* C13: a permission / OAuth-scope error of the structured query of
\* find_by_address leaves the method as an exception: no word search is
\* issued in its place and the result is not "not found"
C13_ScopeErrorPropagates ==
    (/\ last # NoValue
     /\ last.op = "find_by_address"
     /\ ScopeError(last.answers.coql))
        => /\ IsRaise(last.result)
           /\ last.calls = << "coql" >>

(***************************************************************************)
(* Note titles (TitleSpec)                                                 *)
(***************************************************************************)
\* text ends with '...'
EndsWithEllipsis(text) ==
    Len(text) >= 3 /\ SubSeq(text, Len(text) - 2, Len(text)) = Ellipsis

\* the title the two wrappers would send if nothing were ever shortened
NaturalTitle(path, subject) ==
    IF path = "matched"
    THEN TrackedTitle(EmailPrefix \o subject, EmailPrefix \o subject)
    ELSE TrackedTitle(UnmatchedPrefix \o subject, UnmatchedPrefix \o subject)

\* C14: for every subject length and on both paths the Note_Title sent to
\* the remote has at most 110 characters, and a title that was shortened
\* ends with '...'
C14_TitleBounded ==
    (last # NoValue /\ last.op = "note_title")
        => /\ Len(last.sent) <= 110
           /\ last.sent # NaturalTitle(last.path, last.subject)
                => EndsWithEllipsis(last.sent)

\* a subject long enough for the processor itself to shorten the title, on
\* the fallback path
C14_Witness ==
    /\ last # NoValue
    /\ last.op = "note_title"
    /\ last.path = "fallback"
    /\ Len(last.subject) > 110
    /\ EndsWithEllipsis(last.title)
    /\ Len(last.sent) = 110

(***************************************************************************)
(* Fallback notes (Spec)                                                   *)
(***************************************************************************)
\* C15: whenever the fallback path creates a note, the title sent to the
\* remote begins with 'Email (Unmatched):' and the note names the method
\* attempted before: 'no_match', or the method of the matched attempt whose
\* note creation failed
C15_FallbackTitlePrefix ==
    \A i \in 1..Len(log) :
        (log[i].op = "note" /\ log[i].path = "fallback" /\ log[i].stored)
            => /\ StartsWithAt(log[i].title, 1, Take(UnmatchedPrefix, 18))
               /\ log[i].content.method =
                      (IF match_result.found THEN match_result.method ELSE "no_match")

(***************************************************************************)
(* Interrupts (InterruptSpec)                                              *)
(***************************************************************************)
\* C16: an interrupt of the batch lets the email in flight finish: no run
\* stops with a note created for the email in flight and the email not
\* carrying the Processed label
C16_InterruptLetsEmailFinish ==
    (/\ pc = "stopped"
     /\ LastHow = "interrupted"
     /\ \E i \in 1..Len(NoteCalls) : NoteCalls[i].stored)
        => emails[idx] \in labelled

\* the remote accepted the note: status 200 or 201 and a first item with
\* the code SUCCESS
NoteAccepted(answer) ==
    /\ answer.kind = "response"
    /\ answer.status \in {200, 201}
    /\ "data" \in DOMAIN answer.data
    /\ answer.data.data # <<>>
    /\ "code" \in DOMAIN answer.data.data[1]
    /\ answer.data.data[1].code = "SUCCESS"

\* C17: Notes.create returns success = TRUE with the id of the created note
\* exactly when the remote accepted the note; for every other response and
\* for a transport error it raises NoteCreationError or ZohoApiError and
\* returns no result
C17_NotesCreateRaises ==
    (/\ last # NoValue
     /\ last.op = "Notes_create"
     /\ last.answers.post.kind \in {"response", "RequestException"})
        => IF NoteAccepted(last.answers.post)
           THEN /\ ~IsRaise(last.result)
                /\ last.result.ret.success = TRUE
                /\ "details" \in DOMAIN last.answers.post.data.data[1]
                     => last.result.ret.note_id = last.answers.post.data.data[1].details.id
           ELSE /\ IsRaise(last.result)
                /\ last.result.raise.type \in {"NoteCreationError", "ZohoApiError"}

\* the case of the test: HTTP 201 whose first item carries INVALID_DATA
C17_Witness ==
    /\ last # NoValue
    /\ last.op = "Notes_create"
    /\ last.answers.post.kind = "response"
    /\ last.answers.post.status = 201
    /\ "data" \in DOMAIN last.answers.post.data
    /\ last.answers.post.data.data # <<>>
    /\ "code" \in DOMAIN last.answers.post.data.data[1]
    /\ last.answers.post.data.data[1].code = "INVALID_DATA"
    /\ IsRaise(last.result)
    /\ last.result.raise.type = "NoteCreationError"

\* a field query that came back with records
FieldHit(answer) ==
    /\ answer.kind = "response"
    /\ answer.status = 200
    /\ "data" \in DOMAIN answer.data
    /\ answer.data.data # <<>>

\* C18: by_email queries Email, Email_Address, Primary_Email, Contact_Email
\* in that order, returns the records of the first field query that has
\* any and asks nothing after it, passes over a failing field query as over
\* an empty one, and issues the COQL query only when the four field queries
\* gave nothing
C18_ByEmailFirstFieldWins ==
    (last # NoValue /\ last.op = "by_email")
        => LET fields == << "Email", "Email_Address", "Primary_Email", "Contact_Email" >>
               answers == last.answers.fields
               hits == { i \in 1..4 : FieldHit(answers[i]) }
           IN  IF hits # {}
               THEN LET first == CHOOSE i \in hits : \A j \in hits : i <= j
                    IN  /\ last.calls = SubSeq(fields, 1, first)
                        /\ last.result = Ret(answers[first].data.data)
               ELSE last.calls = fields \o << "coql" >>

\* the first field query fails, the second is empty, the third has records:
\* three queries, the records of the third, no COQL query
C18_Witness ==
    /\ last # NoValue
    /\ last.op = "by_email"
    /\ last.answers.fields[1].kind = "Exception"
    /\ last.answers.fields[2].status = 204
    /\ FieldHit(last.answers.fields[3])
    /\ FieldHit(last.answers.fields[4])
    /\ last.calls = << "Email", "Email_Address", "Primary_Email" >>
    /\ last.result = Ret(<< R2 >>)

(***************************************************************************)
(* Probing (Spec)                                                          *)
(***************************************************************************)
\* C19: the probes of one email are issued one after another, and once a
\* probe has returned a record no further search call is issued for that
\* email
C19_NoProbeAfterHit ==
    \A i \in 1..Len(log) :
        (log[i].op = "search" /\ log[i].ids # <<>>)
            => \A j \in (i + 1)..Len(log) : log[j].op # "search"

\* the third probe of m1 returned records after two empty ones, and the
\* email went on to its note and its label without another search
C19_Witness ==
    /\ Len(SearchCalls) = 3
    /\ SearchCalls[1].ids = <<>>
    /\ SearchCalls[2].ids = <<>>
    /\ SearchCalls[3].ids # <<>>
    /\ NoteCalls # <<>>
    /\ LabelIssued
    /\ log[Len(log)].op = "label"

\* C20: every term sent to word search in one matching pass has more than
\* two characters, and no two terms of the pass are equal ignoring case
C20_TermsLongAndDistinct ==
    LET probed == SearchCalls
    IN  /\ \A i \in 1..Len(probed) : Len(probed[i].term) > 2
        /\ \A i \in 1..Len(probed) : \A j \in (i + 1)..Len(probed) :
               StrLower(probed[i].term) # StrLower(probed[j].term)

(***************************************************************************)
(* Matching (MatchSpec)                                                    *)
(***************************************************************************)
\* C21: with one sender address at most 12 word searches are issued for one
\* email (2 sender, 3 address, 2 company, 2 development, 3 subject),
\* whatever the searches return
C21_AtMostTwelveSearches ==
    (email_content # NoValue /\ Len(email_content.from) <= 1)
        => Len(SearchCalls) <= 12

\* one sender address, every text with more keywords than its strategy
\* tries, every search empty: twelve searches and no match
C21_Witness ==
    /\ email_content # NoValue
    /\ Len(email_content.from) = 1
    /\ Len(_extract_address_keywords(development_info.property_address)) > 3
    /\ Len(_extract_subject_keywords(email_content.subject)) > 3
    /\ Len(SearchCalls) = 12
    /\ match_result = NoMatch

(***************************************************************************)
(* Metadata cache, continued (CacheSpec)                                   *)
(***************************************************************************)
\* the last call was served from the cache by a getter of the V8 client
ServedFromCache ==
    /\ GetterCalled
    /\ last.op \in {"discover_modules", "get_module_metadata", "get_field_metadata"}
    /\ last.prior # NoValue
    /\ last.calls = <<>>

\* C22: discover_modules, get_module_metadata and get_field_metadata return
\* on a cache hit the value that the call which populated the entry returned
C22_HitReturnsWhatFetchReturned ==
    ServedFromCache => last.result = last.prior.returned

(***************************************************************************)
(* Query methods, continued (QuerySpec)                                    *)
(***************************************************************************)
\* the structured query failed with a syntax, invalid-query or
\* limit-exceeded error, or on the network
RecoverableFailure(answer) ==
    \/ answer.kind = "RequestException"
    \/ /\ answer.kind = "response"
       /\ answer.status # 200
       /\ answer.text \in {"SYNTAX_ERROR", "INVALID_QUERY", "LIMIT_EXCEEDED"}

\* the id of the first record the word search answered with, or None
FirstWordId(answer) ==
    IF /\ answer.kind = "response" /\ answer.status = 200
       /\ DictGet(answer.data, "data", <<>>) # <<>>
    THEN answer.data.data[1].id
    ELSE NoneId

\* C23: when the structured query of find_by_address fails with a syntax,
\* invalid-query, limit-exceeded or network error, exactly one word search
\* follows the one structured query, the result is the id of the first
\* record of the word search or None, and no exception leaves the method
C23_RecoverableErrorFallsBackOnce ==
    (/\ last # NoValue
     /\ last.op = "find_by_address"
     /\ RecoverableFailure(last.answers.coql))
        => /\ last.calls = << "coql", "word" >>
           /\ last.result = Ret(FirstWordId(last.answers.word))

\* the structured query failed on the network and the word search found R2
C23_Witness ==
    /\ last # NoValue
    /\ last.op = "find_by_address"
    /\ last.answers.coql.kind = "RequestException"
    /\ last.calls = << "coql", "word" >>
    /\ last.result = Ret(R2.id)

\* the structured query answered with at least one record
StructuredHit(answer) ==
    /\ answer.kind = "response" /\ answer.status = 200
    /\ DictGet(answer.data, "data", <<>>) # <<>>

\* the last call was a lookup that starts with a structured query
LookupCalled == last # NoValue /\ last.op \in {"find_by_address", "find_by_email"}

\* C24: in find_by_address and find_by_email the fallback search is attempted
\* whenever the structured query produced no record, an empty result without
\* error included (scope errors, which are meant to be raised, left aside)
C24_FallbackAlwaysAttempted ==
    (/\ LookupCalled
     /\ ~StructuredHit(last.answers.coql)
     /\ ~ScopeError(last.answers.coql))
        => Len(last.calls) = 2

\* C25: no fallback search is issued when the structured query of
\* find_by_address or find_by_email returned at least one record
C25_NoFallbackAfterStructuredHit ==
    (LookupCalled /\ StructuredHit(last.answers.coql))
        => /\ last.calls = << "coql" >>
           /\ ~IsRaise(last.result)

\* both lookups are reached with a structured query that found records
C25_Witness ==
    /\ LookupCalled
    /\ last.op = "find_by_email"
    /\ StructuredHit(last.answers.coql)
    /\ last.result = Ret(<< R1, R2 >>)

(***************************************************************************)
(* Fallback target (Spec)                                                  *)
(***************************************************************************)
\* this step requested the module listing
ListingRequested ==
    /\ Len(log') = Len(log) + 1
    /\ log'[Len(log')].op = "list"

\* the fallback notes requested for the current message
FallbackNoteCalls == SelectSeq(log, LAMBDA e : e.op = "note" /\ e.path = "fallback")

\* C26: one processor instance requests the module listing at most once (only
\* while its cache was never populated, and the cache never changes
\* afterwards), and every fallback note targets the first record of that
\* listing
C26_OneListingOneTarget ==
    [][ /\ ListingRequested => (~_cache_populated /\ _cache_populated')
        /\ _cache_populated
              => (_cache_populated' /\ _accounts_cache' = _accounts_cache)
        /\ \A i \in 1..Len(log') :
              (log'[i].op = "note" /\ log'[i].path = "fallback")
                  => (/\ _cache_populated'
                      /\ _accounts_cache' # <<>>
                      /\ log'[i].parent = _accounts_cache'[1].id) ]_vars

\* a later message of the instance gets its fallback note on the record an
\* earlier fallback note was stored on, without a new listing
C26_Witness ==
    /\ Len(done) + passes > 1
    /\ notes # <<>>
    /\ FallbackNoteCalls # <<>>
    /\ \A i \in 1..Len(log) : log[i].op # "list"
    /\ notes[1].gmail_message_id # email_content.gmail_message_id
    /\ notes[1].parent = FallbackNoteCalls[1].parent

(***************************************************************************)
(* Cache namespaces (CacheSpec)                                            *)
(***************************************************************************)
ModuleGetters ==
    {"discover_modules", "get_module_metadata", "Modules_discover", "Modules_get_metadata"}
FieldGetters == {"get_field_metadata", "Modules_get_fields"}

\* the key is one of the field-descriptor keys
IsFieldKey(key) == StartsWithAt(key, 1, <<"f","i","e","l","d","s">>)

\* the timestamps of the keys of one kind are the same before and after
SameTimestamps(field_kind) ==
    /\ {k \in DOMAIN _cache_timestamps' : IsFieldKey(k) = field_kind}
           = {k \in DOMAIN _cache_timestamps : IsFieldKey(k) = field_kind}
    /\ \A k \in DOMAIN _cache_timestamps :
           (IsFieldKey(k) = field_kind) => _cache_timestamps'[k] = _cache_timestamps[k]

\* C27: a call of a module-descriptor getter changes no payload and no
\* timestamp of a field-descriptor key, and conversely; after every call each
\* key with a stored payload has a stored timestamp
C27_KindsDoNotInterfere ==
    [][ /\ (last' # NoValue /\ last'.op \in ModuleGetters)
            => (/\ _field_cache' = _field_cache
                /\ SameTimestamps(TRUE))
        /\ (last' # NoValue /\ last'.op \in FieldGetters)
            => (/\ _module_cache' = _module_cache
                /\ SameTimestamps(FALSE))
        /\ (DOMAIN _module_cache' \cup DOMAIN _field_cache')
               \subseteq DOMAIN _cache_timestamps' ]_vars

\* a field-descriptor fetch has just written its key while a
\* module-descriptor key written half a day earlier is still stored
C27_Witness ==
    /\ GetterCalled
    /\ last.op \in FieldGetters
    /\ last.calls # <<>>
    /\ last.key \in DOMAIN _field_cache
    /\ _cache_timestamps[last.key] = now
    /\ ModulesKey \in DOMAIN _module_cache
    /\ _cache_timestamps[ModulesKey] < now

(***************************************************************************)
(* Query text (BuilderSpec)                                                *)
(***************************************************************************)
\* the number of backslashes that immediately precede position i
RECURSIVE BackslashesBefore(_, _)
BackslashesBefore(text, i) ==
    IF i > 1 /\ text[i - 1] = Backslash THEN 1 + BackslashesBefore(text, i - 1) ELSE 0

\* the apostrophes of the text that no backslash escapes
UnescapedApostrophes(text) ==
    Cardinality({ i \in 1..Len(text) :
                    text[i] = Apostrophe /\ BackslashesBefore(text, i) % 2 = 0 })

\* the apostrophes of the builder's own template, those that delimit literals
Delimiters(op) ==
    UnescapedApostrophes(
        IF op = "find_by_address" THEN Developments_address_query(<<"a">>)
        ELSE IF op = "search_by_criteria"
        THEN Developments_criteria_query(<<"N","a","m","e">>, <<"a">>)
        ELSE IF op = "find_by_email" THEN Search_find_by_email_query(<<"a">>)
        ELSE notes_query(<<"a">>))

\* the last call built a query
QueryBuilt ==
    /\ last # NoValue
    /\ last.op \in {"find_by_address", "search_by_criteria", "find_by_email",
                    "check_email_already_processed"}
    /\ "query" \in DOMAIN last
    /\ last.query # <<>>

\* C28: the query a builder sends contains no unescaped apostrophe that
\* comes from the search value: its unescaped apostrophes are the
\* delimiters of its literals
C28_ApostrophesEscaped ==
    QueryBuilt => UnescapedApostrophes(last.query) = Delimiters(last.op)

(***************************************************************************)
(* Failed fetches (CacheSpec)                                              *)
(***************************************************************************)
\* the last call was a getter whose fetch failed
FetchJustFailed == GetterCalled /\ last.failed

\* the value a getter gives when it has no descriptor: [] for the list
\* getters of the V8 client, an error dict for get_module_metadata, a raised
\* ZohoApiError for the getters of Modules
IsEmptyOrError(op, result) ==
    IF op \in {"discover_modules", "get_field_metadata"} THEN result = Ret(<<>>)
    ELSE IF op = "get_module_metadata"
    THEN ~IsRaise(result) /\ result.ret = [success |-> FALSE, error |-> result.ret.error]
    ELSE result = Raise("ZohoApiError")

\* C29: a fetch that fails (non-200 answer or transport error) changes no
\* cache payload and no cache timestamp, and the getter returns its empty or
\* error value, also when the key has an expired payload
C29_FailedFetchLeavesCache ==
    [][ (last' # NoValue /\ last'.op \in DOMAIN TtlHours /\ last'.failed)
            => /\ _module_cache' = _module_cache
               /\ _field_cache' = _field_cache
               /\ _cache_timestamps' = _cache_timestamps
               /\ IsEmptyOrError(last'.op, last'.result) ]_vars

\* the refetch of an expired field-descriptor key failed: the stale payload
\* is still stored and was not returned
C29_Witness ==
    /\ FetchJustFailed
    /\ last.op = "get_field_metadata"
    /\ last.prior # NoValue
    /\ last.at >= PriorExpiry
    /\ last.prior.payload # <<>>
    /\ _field_cache[last.key] = last.prior.payload
    /\ _cache_timestamps[last.key] = last.prior.at
    /\ last.result = Ret(<<>>)

(***************************************************************************)
(* Fallback after a failed listing (Spec)                                  *)
(***************************************************************************)
\* the current message was refused its fallback note for lack of a target
NoAccountsAvailable ==
    /\ pc = "noted"
    /\ note_result = [success |-> FALSE,
                      error |-> "No accounts available for fallback note creation"]

\* C30: a message that needs the fallback while no target is known triggers
\* a listing of its own, so that a failed or empty first listing is retried
\* by a later message of the same instance
C30_ListingRetriedAfterFailure ==
    NoAccountsAvailable => \E i \in 1..Len(log) : log[i].op = "list"

TypeOK ==
    /\ pc \in {"idle", "start", "dupcheck", "ai", "match", "note_matched",
               "listing", "note_fallback", "noted", "raised"}
    /\ passes \in 0..MaxPasses
    /\ labelled \subseteq MsgIds
====
